---- MODULE Spec2Model ----
(***************************************************************************)
(* PowerHive power balancer (internal/app/power_balancer.go) together with *)
(* the parts of the Store, the firmware client and the other services that *)
(* its tick reads or writes.                                               *)
(*                                                                         *)
(* Watts are integers.  Instants are kept as ages (seconds since the       *)
(* instant, saturating at the cooldown): time.Since(t) is the age of t.    *)
(* balance() only asks whether an entry of the cooldown map is younger     *)
(* than the cooldown, so a missing entry is kept as a saturated age.       *)
(***************************************************************************)
EXTENDS Integers, Sequences, FiniteSets, TLC

(* ---------------------------------------------------------------------- *)
(* Program constants                                                      *)
(* ---------------------------------------------------------------------- *)
presetChangeCooldown == 30
BalancerSeconds == 15
Tolerance == 2000
DefaultSafetyMargin == 10
ZeroHashEfficiency == 1000000000
MegaWatt == 1000000

Nil == "<nil>"
NoW == -1
Absent == -1
Unparsable == -2

(* ---------------------------------------------------------------------- *)
(* The fleet and the model catalog                                        *)
(* ---------------------------------------------------------------------- *)
MinerIDs == {"m1", "m2"}
ModelAliases == {"X", "Y"}

\* model_presets rows in position order
ModelPresetValues(alias) ==
  IF alias = "X" THEN <<"disabled", "low", "mid", "high">>
  ELSE <<"disabled", "1100", "3010W">>

\* model_presets.expected_power_w (NoW = NULL)
ExpectedPowerW(alias, value) ==
  IF alias = "X"
  THEN CASE value = "low" -> 1500
         [] value = "mid" -> 2500
         [] value = "high" -> 6500
         [] OTHER -> NoW
  ELSE NoW

\* the characters of the preset strings of the catalog
Chars(value) ==
  CASE value = "disabled" -> <<"d", "i", "s", "a", "b", "l", "e", "d">>
    [] value = "1100" -> <<"1", "1", "0", "0">>
    [] value = "3010W" -> <<"3", "0", "1", "0", "W">>
    [] value = "low" -> <<"l", "o", "w">>
    [] value = "mid" -> <<"m", "i", "d">>
    [] value = "high" -> <<"h", "i", "g", "h">>
    [] OTHER -> <<>>

SeqToSet(s) == {s[i] : i \in DOMAIN s}

Abs(x) == IF x < 0 THEN -x ELSE x

Min(S) == CHOOSE x \in S : \A y \in S : x <= y

Max(S) == CHOOSE x \in S : \A y \in S : x >= y

(* ---------------------------------------------------------------------- *)
(* parsePresetWattage                                                     *)
(* ---------------------------------------------------------------------- *)
ToLower(c) == IF c = "W" THEN "w" ELSE IF c = "D" THEN "d" ELSE c

RECURSIVE TrimLeft(_)
TrimLeft(s) == IF s # <<>> /\ Head(s) = " " THEN TrimLeft(Tail(s)) ELSE s

RECURSIVE TrimRight(_)
TrimRight(s) ==
  IF s # <<>> /\ s[Len(s)] = " " THEN TrimRight(SubSeq(s, 1, Len(s) - 1)) ELSE s

TrimSpace(s) == TrimRight(TrimLeft(s))

TrimSuffixW(s) ==
  IF s # <<>> /\ s[Len(s)] = "w" THEN SubSeq(s, 1, Len(s) - 1) ELSE s

Digits == <<"0", "1", "2", "3", "4", "5", "6", "7", "8", "9">>

DigitVal(c) == (CHOOSE i \in DOMAIN Digits : Digits[i] = c) - 1

RECURSIVE ParseDigits(_, _)
ParseDigits(s, acc) ==
  IF s = <<>> THEN acc ELSE ParseDigits(Tail(s), acc * 10 + DigitVal(Head(s)))

\* strconv.ParseFloat on the decimal strings of the catalog; NoW = error
ParseFloat(s) ==
  IF s = <<>> \/ \E i \in DOMAIN s : s[i] \notin SeqToSet(Digits)
  THEN NoW
  ELSE ParseDigits(s, 0)

\* NoW stands for the error return
parsePresetWattage(value) ==
  LET trimmed == TrimSpace(Chars(value))
      preset == [i \in DOMAIN trimmed |-> ToLower(trimmed[i])]
  IN  IF preset = <<>> THEN NoW
      ELSE IF preset = Chars("disabled") THEN NoW
      ELSE LET watts == ParseFloat(TrimSuffixW(preset))
           IN  IF watts <= 0 THEN NoW ELSE watts

(* ---------------------------------------------------------------------- *)
(* Pure helpers of the balancer.  ms is the slice returned by ListMiners, *)
(* as a function from miner id to the Miner record.                       *)
(* ---------------------------------------------------------------------- *)
NoStatus == [valid |-> FALSE, preset |-> Nil, power |-> NoW, hash |-> 0]

filterEligibleMinersAnyManaged(ms) ==
  {d \in DOMAIN ms :
     /\ ms[d].IP # Nil
     /\ ms[d].APIKey # Nil
     /\ ms[d].Model # Nil}

filterEligibleMiners(ms) ==
  {d \in DOMAIN ms :
     /\ ms[d].Managed
     /\ ms[d].IP # Nil
     /\ ms[d].APIKey # Nil
     /\ ms[d].Model # Nil}

filterOnlineMiners(ms) ==
  {d \in DOMAIN ms : ms[d].IP # Nil /\ ms[d].Model # Nil}

\* the power map loadPresetPowerMap builds for one model alias
PowerMapOf(alias, ms, online) ==
  LET values == SeqToSet(ModelPresetValues(alias))
      withPower == {v \in values : ExpectedPowerW(alias, v) # NoW}
  IN  IF withPower # {}
      THEN [v \in withPower |-> ExpectedPowerW(alias, v)]
      ELSE IF \E d \in online : ms[d].Model = alias
           THEN [v \in {w \in values : parsePresetWattage(w) # NoW}
                   |-> parsePresetWattage(v)]
           ELSE [v \in {} |-> 0]

loadPresetPowerMap(ms, online) ==
  [alias \in {a \in ModelAliases : DOMAIN PowerMapOf(a, ms, online) # {}}
     |-> PowerMapOf(alias, ms, online)]

\* power of one miner as calculateCurrentConsumption and
\* calculateEfficiencies resolve it; NoW when there is no power data
ResolvedPower(m, presetPowerMap) ==
  IF /\ m.LatestStatus.valid
     /\ m.LatestStatus.preset # Nil
     /\ m.Model \in DOMAIN presetPowerMap
     /\ m.LatestStatus.preset \in DOMAIN presetPowerMap[m.Model]
  THEN presetPowerMap[m.Model][m.LatestStatus.preset]
  ELSE IF m.LatestStatus.valid THEN m.LatestStatus.power ELSE NoW

RECURSIVE SumOver(_, _, _)
SumOver(S, ms, presetPowerMap) ==
  IF S = {} THEN 0
  ELSE LET d == CHOOSE x \in S : TRUE
           w == ResolvedPower(ms[d], presetPowerMap)
       IN  (IF w = NoW THEN 0 ELSE w) + SumOver(S \ {d}, ms, presetPowerMap)

calculateCurrentConsumption(ms, online, presetPowerMap) ==
  SumOver(online, ms, presetPowerMap)

\* efficiency in W/TH as the fraction num/den
Efficiency(currentPower, hashrateTH) ==
  IF hashrateTH <= 0
  THEN [num |-> ZeroHashEfficiency, den |-> 1]
  ELSE [num |-> currentPower, den |-> hashrateTH]

EffLess(a, b) == a.num * b.den < b.num * a.den

\* the minerEfficiency entries, before sorting
calculateEfficiencies(ms, eligible, presetPowerMap) ==
  {[miner |-> ms[d],
    efficiency |-> Efficiency(ResolvedPower(ms[d], presetPowerMap),
                              ms[d].LatestStatus.hash),
    currentPreset |-> ms[d].LatestStatus.preset,
    currentPower |-> ResolvedPower(ms[d], presetPowerMap)] :
     d \in {e \in eligible :
              /\ ms[e].LatestStatus.valid
              /\ ResolvedPower(ms[e], presetPowerMap) # NoW}}

RECURSIVE Perms(_)
Perms(S) ==
  IF S = {} THEN {<<>>}
  ELSE UNION {{<<x>> \o p : p \in Perms(S \ {x})} : x \in S}

\* a candidate list left in whatever order the store returned the miners
UnsortedEfficiencies(entries, d) == Perms(entries)

\* the orders sort.Slice may leave the entries in (it is not stable):
\* worst W/TH first when reducing, best first when increasing
SortedEfficiencies(entries, d) ==
  {s \in Perms(entries) :
     \A i, j \in DOMAIN s :
        i < j => IF d < 0
                 THEN ~EffLess(s[i].efficiency, s[j].efficiency)
                 ELSE ~EffLess(s[j].efficiency, s[i].efficiency)}

\* the orders the presets of a power map can be sorted in, ascending by power
SortedPresets(powerMap) ==
  {s \in Perms({[preset |-> v, power |-> powerMap[v]] : v \in DOMAIN powerMap}) :
     \A i, j \in DOMAIN s : i < j => s[i].power <= s[j].power}

NoTarget == [err |-> FALSE, preset |-> Nil, power |-> NoW]

\* a reduce loop that walks the presets upwards and an increase loop that
\* walks them downwards
determineTargetPresetReversed(miner, d, powerMap, presets) ==
  LET currentPower ==
        IF /\ miner.LatestStatus.valid
           /\ miner.LatestStatus.preset # Nil
           /\ miner.LatestStatus.preset \in DOMAIN powerMap
        THEN powerMap[miner.LatestStatus.preset]
        ELSE NoW
      lower == {i \in DOMAIN presets :
                  currentPower = NoW \/ presets[i].power < currentPower}
      higher == {i \in DOMAIN presets :
                   currentPower = NoW \/ presets[i].power > currentPower}
  IN  IF d < 0
      THEN IF lower = {} THEN [err |-> FALSE, preset |-> Nil, power |-> NoW]
           ELSE [err |-> FALSE, preset |-> presets[Min(lower)].preset,
                 power |-> presets[Min(lower)].power]
      ELSE IF higher = {} THEN [err |-> FALSE, preset |-> Nil, power |-> NoW]
           ELSE [err |-> FALSE, preset |-> presets[Max(higher)].preset,
                 power |-> presets[Max(higher)].power]

\* determineTargetPreset, given the order the sort left the presets in
determineTargetPresetSorted(miner, d, powerMap, presets) ==
  LET currentPower ==
        IF /\ miner.LatestStatus.valid
           /\ miner.LatestStatus.preset # Nil
           /\ miner.LatestStatus.preset \in DOMAIN powerMap
        THEN powerMap[miner.LatestStatus.preset]
        ELSE NoW
      needsReduction == d < 0
      maxPreset == miner.MaxPreset
      lower == {i \in DOMAIN presets :
                  currentPower = NoW \/ presets[i].power < currentPower}
      foundMax(i) == \E j \in 1..i : presets[j].preset = maxPreset
      exceeds(i) == \E j \in DOMAIN presets :
                       /\ presets[j].preset = maxPreset
                       /\ presets[i].power > presets[j].power
      higher == {i \in DOMAIN presets :
                   /\ currentPower = NoW \/ presets[i].power > currentPower
                   /\ ~(maxPreset # Nil /\ presets[i].preset # maxPreset /\ ~foundMax(i))
                   /\ ~(maxPreset # Nil /\ exceeds(i))}
  IN  IF needsReduction
      THEN IF lower = {} THEN NoTarget
           ELSE [err |-> FALSE, preset |-> presets[Max(lower)].preset,
                 power |-> presets[Max(lower)].power]
      ELSE IF higher = {} THEN NoTarget
           ELSE [err |-> FALSE, preset |-> presets[Min(higher)].preset,
                 power |-> presets[Min(higher)].power]

\* the results determineTargetPreset can return
determineTargetPreset(miner, d, presetPowerMap) ==
  IF miner.Model = Nil \/ miner.Model \notin DOMAIN presetPowerMap
  THEN {[err |-> TRUE, preset |-> Nil, power |-> NoW]}
  ELSE {determineTargetPresetSorted(miner, d, presetPowerMap[miner.Model], s) :
          s \in SortedPresets(presetPowerMap[miner.Model])}

\* the tolerance test of balance(): math.Abs(delta) < 2000
withinToleranceHalved(d) == Abs(d) < Tolerance \div 2

withinTolerance(d) == Abs(d) < Tolerance

\* the plan phase from candidate i on; the set of possible outcomes
RECURSIVE PlanFrom(_, _, _, _, _, _, _)
PlanFrom(i, effs, cooldown, presetPowerMap, planned, expected, d) ==
  IF i > Len(effs)
  THEN {[plannedChanges |-> planned, expectedConsumption |-> expected, delta |-> d]}
  ELSE
    LET me == effs[i]
        id == me.miner.ID
    IN  IF cooldown[id] < presetChangeCooldown
        THEN PlanFrom(i + 1, effs, cooldown, presetPowerMap, planned, expected, d)
        ELSE UNION {
          IF \/ t.err
             \/ t.preset = Nil
             \/ (me.currentPreset # Nil /\ t.preset = me.currentPreset)
          THEN PlanFrom(i + 1, effs, cooldown, presetPowerMap, planned, expected, d)
          ELSE
            LET powerChange == t.power - me.currentPower
                planned2 == [x \in DOMAIN planned \cup {id} |->
                               IF x = id
                               THEN [targetPreset |-> t.preset, targetPower |-> t.power]
                               ELSE planned[x]]
            IN  IF withinTolerance(d - powerChange)
                THEN {[plannedChanges |-> planned2,
                       expectedConsumption |-> expected + powerChange,
                       delta |-> d - powerChange]}
                ELSE PlanFrom(i + 1, effs, cooldown, presetPowerMap, planned2,
                              expected + powerChange, d - powerChange)
          : t \in determineTargetPreset(me.miner, d, presetPowerMap)}

NoPlan == [x \in {} |-> [targetPreset |-> Nil, targetPower |-> NoW]]

(* ---------------------------------------------------------------------- *)
(* State                                                                  *)
(* ---------------------------------------------------------------------- *)
VARIABLES
  plantReading,        \* TotalGeneration (kW) of the latest plant_readings row, Absent if none
  safetyMarginSetting, \* app_settings["safety_margin_percent"]
  lastPresetChange,    \* app_settings["last_preset_change"]: miner id -> age of the instant
  expectedSetting,     \* app_settings["expected_consumption_w"]
  miners,              \* miners table joined with the latest status
  modelMaxPreset,      \* models.max_preset by alias
  events,              \* power_balance_events rows appended by the current tick, in order
  lastSuccess,         \* age of the newest success row of power_balance_events, by miner
  devicePreset,        \* the preset each device runs
  testMode,            \* cfg.Plant.TestMode
  pc,                  \* position of the balancer in balance()
  outcome,             \* how the current tick left the read phase
  minerEfficiencies,
  plannedChanges,
  cooldownMap,
  expectedConsumption,
  baselineW,           \* currentConsumptionW at tick entry
  currentConsumptionW,
  targetPowerW,
  delta,
  idx,                 \* next index of the apply loop
  firmwareCalls,       \* firmware requests of the current tick with the status of
                       \* the answer (0 when the request failed in transport), in order
  posted,              \* body of the test-server POST of the current tick
  storedThisTick,      \* storeExpectedConsumption has returned nil in this tick
  plantRows,           \* rows of plant_readings, in insertion order (id = index)
  plantPoll,           \* the response and the return value of the last PlantPoller.poll
  scanPc,              \* position of Discoverer.scan: "idle", "apply" or "mark"
  seen,                \* devices that answered info() and model() in the last sweep
  resultCh,            \* probe results of the sweep that are still to be applied
  discovered,          \* the discovered map of the sweep
  current,             \* the applyDiscovery call that has read the model, if any
  scanEnded,           \* how the last scan returned
  deviceKeys,          \* the API keys each device lists
  discoveryCalls,      \* key-management calls made to devices in the sweep
  db,                  \* the committed status tables and latest_status_id
  txn,                 \* the open transaction of RecordMinerStatus, if any
  lastCall,            \* how the last RecordMinerStatus call returned
  modelTable,          \* the committed models table, by alias
  presetTable,         \* the committed model_presets rows of each model, in insertion
                       \* order: value, position and expected_power_w (NoW = NULL)
  apiCall,             \* the last call of the Store's model and miner operations
  patch,               \* the PATCH of a model that has read the model, if any
  minerTable,          \* the committed miners table, by id
  minerCall,           \* the last UpsertMiner call
  polled,              \* the sampler that polled last and the miners it selected
  telemetry,           \* the miners that have chain_snapshots rows
  appPc,               \* position of main and App.Run
  ctxDone,             \* the context App.Run hands to the services is cancelled
  signalled,           \* SIGINT or SIGTERM has arrived
  services,            \* what each periodic service is doing
  listener,            \* the HTTP listener: "listening", "failed" or "closed"
  serveLoop,           \* the goroutine of ListenAndServe: "serving" or "returned"
  handlers,            \* an HTTP handler is running
  errCh,               \* an error is waiting in errCh
  runErr,              \* App.Run's runErr is a listener error
  shutdownClock,       \* seconds Shutdown has waited for the handlers
  storeOpen,           \* the database handle is open
  conn,                \* who holds the pool's only connection, or Nil
  writerLock,          \* who holds SQLite's writer lock: "free", "external" or a caller
  storeCalls,          \* the Store call each goroutine is running
  fan                  \* the fan-out cycle in flight: its goroutines and channels

storeVars == <<plantReading, safetyMarginSetting, lastPresetChange, expectedSetting,
               miners, modelMaxPreset, lastSuccess>>

tickVars == <<events, outcome, minerEfficiencies, plannedChanges, cooldownMap,
              expectedConsumption, baselineW, currentConsumptionW, targetPowerW,
              delta, idx, firmwareCalls, posted, storedThisTick>>

vars == <<plantReading, safetyMarginSetting, lastPresetChange, expectedSetting,
          miners, modelMaxPreset, events, lastSuccess, devicePreset, testMode, pc,
          outcome, minerEfficiencies, plannedChanges, cooldownMap,
          expectedConsumption, baselineW, currentConsumptionW, targetPowerW,
          delta, idx, firmwareCalls, posted, storedThisTick,
          plantRows, plantPoll, scanPc, seen, resultCh, discovered, current,
          scanEnded, deviceKeys, discoveryCalls, db, txn, lastCall,
          modelTable, presetTable, apiCall, patch, minerTable, minerCall,
          polled, telemetry, appPc, ctxDone, signalled, services, listener,
          serveLoop, handlers, errCh, runErr, shutdownClock, storeOpen,
          conn, writerLock, storeCalls, fan>>

\* the state of the plant poller.  Spec keeps only the generation of the
\* latest reading (plantReading); PlantSpec keeps the rows as well
plantVars == <<plantRows, plantPoll>>

\* the state the balancer and the writers of Spec leave alone
\* the state of the discoverer and of the key stores of the devices
discVars == <<scanPc, seen, resultCh, discovered, current, scanEnded, deviceKeys,
              discoveryCalls>>

\* the status tables as Store.RecordMinerStatus writes them
recVars == <<db, txn, lastCall>>

\* the models and miners tables as the Store's upsert operations write them
apiVars == <<modelTable, presetTable, apiCall, patch, minerTable, minerCall>>

\* the samplers of status and of chain telemetry, and the worker pool of
\* the cycle that is running
pollVars == <<polled, telemetry, fan>>

\* the supervisor (main and App.Run), its services and the HTTP server
appVars == <<appPc, ctxDone, signalled, services, listener, serveLoop, handlers, errCh,
             runErr, shutdownClock, storeOpen>>

\* the connection pool of the database handle and the Store calls in flight
connVars == <<conn, writerLock, storeCalls>>

sideVars == <<apiVars, pollVars, appVars, connVars>>

extVars == <<plantVars, discVars, recVars, sideVars>>

TestServerURL == "http://test-server"

Generations == {5, 10}
Margins == {Absent, 10}

\* what a miner can answer to summary and perf-summary: perfOk = perf-summary
\* was fetched, power = power_consumption, hash = realtime hashrate in TH/s
StatusReports(d) ==
  IF d = "m1"
  THEN {[perfOk |-> TRUE, power |-> NoW, hash |-> 2],
        [perfOk |-> TRUE, power |-> 500, hash |-> 0],
        [perfOk |-> FALSE, power |-> 500, hash |-> 2]}
  ELSE {[perfOk |-> TRUE, power |-> NoW, hash |-> 2]}

ModelOf(d) == IF d = "m1" THEN "X" ELSE "Y"

MaxPresetChoices(alias) ==
  IF alias = "X" THEN {Nil, "low", "high"} ELSE {"3010W"}

InitialPresets(d) == IF d = "m1" THEN {"disabled", "high"} ELSE {"1100"}

\* m1 is discovered and provisioned; m2 is a row created through the HTTP
\* API that discovery has not seen yet
InitialMiner(d) ==
  IF d = "m1"
  THEN [managed |-> FALSE, ip |-> "ip", apiKey |-> "key", model |-> "X",
        status |-> NoStatus]
  ELSE [managed |-> TRUE, ip |-> Nil, apiKey |-> Nil, model |-> Nil,
        status |-> NoStatus]

PowerPresets(alias) == SeqToSet(ModelPresetValues(alias)) \ {"disabled"}

NoCooldowns == [d \in MinerIDs |-> presetChangeCooldown]

NoPosted == [sent |-> FALSE, num |-> 0, den |-> 1]

\* nothing of a tick is left when the process starts
TickInit ==
  /\ events = <<>>
  /\ pc = "idle"
  /\ outcome = "none"
  /\ minerEfficiencies = <<>>
  /\ plannedChanges = NoPlan
  /\ cooldownMap = NoCooldowns
  /\ expectedConsumption = 0
  /\ baselineW = 0
  /\ currentConsumptionW = 0
  /\ targetPowerW = 0
  /\ delta = 0
  /\ idx = 1
  /\ firmwareCalls = <<>>
  /\ posted = NoPosted
  /\ storedThisTick = FALSE

\* no request has been made yet (StatusCode 0)
NoResponse ==
  [transportError |-> FALSE, StatusCode |-> 0, decodable |-> FALSE,
   reading |-> [ConfidenceScore |-> 0, GenerationMW |-> [num |-> 0, den |-> 1000],
                ConsumptionMW |-> [num |-> 0, den |-> 1000],
                CollectionTimestamp |-> 0]]

NoPoll == [resp |-> NoResponse, err |-> Nil]

\* an empty plant_readings table and a poller that has not polled
PlantInit ==
  /\ plantRows = <<>>
  /\ plantPoll = NoPoll

NoCurrent == [miner |-> Nil, maxPreset |-> Nil]

\* a discoverer that has not scanned yet
ScanInit ==
  /\ scanPc = "idle"
  /\ seen = {}
  /\ resultCh = {}
  /\ discovered = {}
  /\ current = NoCurrent
  /\ scanEnded = "never"
  /\ discoveryCalls = {}

DiscInit ==
  /\ ScanInit
  /\ deviceKeys = [d \in MinerIDs |-> {}]

EmptyDB ==
  [statuses |-> {}, fans |-> {}, chains |-> {}, chips |-> {},
   latest |-> [d \in MinerIDs |-> 0]]

NoInput == [Fans |-> 0, Chains |-> 0, Chips |-> 0]

NoTxn == [open |-> FALSE, miner |-> Nil, input |-> NoInput, pos |-> 0, id |-> 0,
          work |-> EmptyDB]

NoCall == [miner |-> Nil, id |-> 0, result |-> Nil, pos |-> 0, committed |-> FALSE,
           storeError |-> FALSE]

\* no status has been recorded
RecInit ==
  /\ db = EmptyDB
  /\ txn = NoTxn
  /\ lastCall = NoCall

NullString == [null |-> TRUE, value |-> <<>>]

NullList == [null |-> TRUE, items |-> <<>>]

NoModel == [exists |-> FALSE, name |-> <<>>, max_preset |-> NullString]

NoModelInput == [Name |-> <<>>, Alias |-> Nil, Presets |-> NullList, MaxPreset |-> NullString]

NoApiCall == [op |-> Nil, input |-> NoModelInput, result |-> Nil, committed |-> FALSE]

NoPatch == [open |-> FALSE, input |-> NoModelInput]

NullBool == [null |-> TRUE, value |-> FALSE]

\* updated_at is "default" while it holds what the INSERT gave it and "set"
\* once an UPDATE has written CURRENT_TIMESTAMP
NoMiner ==
  [exists |-> FALSE, ip |-> NullString, api_key |-> NullString, managed |-> FALSE,
   unlock_pass |-> <<>>, model |-> Nil, updated_at |-> "default"]

NoParams ==
  [ID |-> <<>>, IP |-> NullString, APIKey |-> NullString, Managed |-> NullBool,
   UnlockPass |-> NullString, ModelAlias |-> NullString]

NoMinerCall == [params |-> NoParams, result |-> Nil, committed |-> FALSE]

\* a database without models and miners
ApiInit ==
  /\ modelTable = [a \in ModelAliases |-> NoModel]
  /\ presetTable = [a \in ModelAliases |-> <<>>]
  /\ apiCall = NoApiCall
  /\ patch = NoPatch
  /\ minerTable = [d \in MinerIDs |-> NoMiner]
  /\ minerCall = NoMinerCall

NoPolled == [poller |-> Nil, listed |-> FALSE, targets |-> {}]

\* the zero value of a worker's result
NoResult == [job |-> 0, err |-> FALSE, preset |-> FALSE]

NoFan ==
  [kind |-> Nil, n |-> 0, ctx |-> FALSE, next |-> 1, prod |-> "done", jobsClosed |-> 0,
   w |-> <<>>, results |-> <<>>, resClosed |-> 0, closer |-> "done",
   main |-> "returned", outcome |-> <<>>, persist |-> <<>>, recorded |-> {}]

\* no sampler has polled and no cycle is running
PollInit ==
  /\ polled = NoPolled
  /\ telemetry = {}
  /\ fan = NoFan

ServiceNames == {"discovery", "status", "telemetry", "plant_poller", "power_balancer"}

\* App.Run has started the services and the listener and waits in its select
AppInit ==
  /\ appPc = "select"
  /\ ctxDone = FALSE
  /\ signalled = FALSE
  /\ services = [n \in ServiceNames |-> "waiting"]
  /\ listener = "listening"
  /\ serveLoop = "serving"
  /\ handlers = FALSE
  /\ errCh = FALSE
  /\ runErr = FALSE
  /\ shutdownClock = 0
  /\ storeOpen = TRUE

\* the goroutines that call the Store: two services and an HTTP handler
StoreCallers == {"power_balancer", "status", "http"}

NoStoreCall == [op |-> Nil, at |-> 0, state |-> "idle", err |-> Nil]

\* the connection is idle in the pool and nobody writes
ConnInit ==
  /\ conn = Nil
  /\ writerLock = "free"
  /\ storeCalls = [c \in StoreCallers |-> NoStoreCall]

SideInit == ApiInit /\ PollInit /\ AppInit /\ ConnInit

ExtInit == PlantInit /\ DiscInit /\ RecInit /\ SideInit

\* the catalog: every model has its presets, and a max_preset among them or none
CatalogInit ==
  /\ modelMaxPreset \in [ModelAliases -> {Nil, "low", "mid", "high", "1100", "3010W"}]
  /\ \A a \in ModelAliases : modelMaxPreset[a] \in MaxPresetChoices(a)

Init ==
  /\ plantReading = Absent
  /\ safetyMarginSetting \in Margins
  /\ lastPresetChange = NoCooldowns
  /\ expectedSetting = Absent
  /\ miners = [d \in MinerIDs |-> InitialMiner(d)]
  /\ CatalogInit
  /\ lastSuccess = NoCooldowns
  /\ devicePreset \in [MinerIDs -> {"disabled", "low", "mid", "high", "1100", "3010W"}]
  /\ \A d \in MinerIDs : devicePreset[d] \in InitialPresets(d)
  /\ testMode = TRUE
  /\ TickInit
  /\ ExtInit

(* ---------------------------------------------------------------------- *)
(* The balancer tick: balance()                                           *)
(* ---------------------------------------------------------------------- *)
\* age of an instant after dt more seconds
Elapsed(age, dt) ==
  IF age + dt > presetChangeCooldown THEN presetChangeCooldown ELSE age + dt

\* seconds between two ticks: the ticker period.  (After a start the first
\* tick comes 5 s later; the model lets a whole period pass there too.)
SinceLastTick == BalancerSeconds

\* the wait for the next tick: time passes for every stored instant.  The
\* balancer never reads expected_consumption_w, so the value an earlier tick
\* left there is kept as Absent.
WaitForTicker ==
  /\ lastPresetChange' = [d \in MinerIDs |-> Elapsed(lastPresetChange[d], SinceLastTick)]
  /\ lastSuccess' = [d \in MinerIDs |-> Elapsed(lastSuccess[d], SinceLastTick)]
  /\ expectedSetting' = Absent

\* the ticker fires
TickerFires ==
  /\ pc = "idle"
  /\ UNCHANGED <<lastPresetChange, lastSuccess>>

\* Store.ListMiners
ListMiners ==
  [d \in MinerIDs |->
     [ID |-> d,
      Managed |-> miners[d].managed,
      IP |-> miners[d].ip,
      APIKey |-> miners[d].apiKey,
      Model |-> miners[d].model,
      MaxPreset |-> IF miners[d].model = Nil THEN Nil
                    ELSE modelMaxPreset[miners[d].model],
      LatestStatus |-> miners[d].status]]

\* the margin balance() uses once GetAppSetting has returned a value
safetyMargin ==
  IF safetyMarginSetting = Unparsable THEN DefaultSafetyMargin ELSE safetyMarginSetting

\* targetPower * 1000, with TotalGeneration in kW and the margin in percent
TargetPowerW == plantReading * (100 - safetyMargin) * 10

TickPresetPowerMap == loadPresetPowerMap(ListMiners, filterOnlineMiners(ListMiners))

TickConsumption ==
  calculateCurrentConsumption(ListMiners, filterOnlineMiners(ListMiners), TickPresetPowerMap)

TickEntries ==
  calculateEfficiencies(ListMiners, filterEligibleMiners(ListMiners), TickPresetPowerMap)

ResetTick ==
  /\ events' = <<>>
  /\ minerEfficiencies' = <<>>
  /\ plannedChanges' = NoPlan
  /\ cooldownMap' = NoCooldowns
  /\ expectedConsumption' = 0
  /\ baselineW' = 0
  /\ currentConsumptionW' = 0
  /\ targetPowerW' = 0
  /\ delta' = 0
  /\ idx' = 1
  /\ firmwareCalls' = <<>>
  /\ posted' = NoPosted
  /\ storedThisTick' = FALSE

\* GetLatestPlantReading has returned a reading (plantReading != nil)
HasPlantReadingAlways == TRUE

HasPlantReading == plantReading # Absent

\* a Store read of the read phase fails (plant reading, margin, miners or
\* presets): balance() returns the error
BalanceAbort ==
  /\ TickerFires
  /\ pc' = "done"
  /\ outcome' = "aborted"
  /\ ResetTick
  /\ UNCHANGED <<plantReading, safetyMarginSetting, expectedSetting, miners,
                 modelMaxPreset, devicePreset, testMode>>
  /\ UNCHANGED extVars

\* no plant reading yet: balance() returns nil
BalanceNoReading ==
  /\ TickerFires
  /\ ~HasPlantReading
  /\ pc' = "done"
  /\ outcome' = "noreading"
  /\ ResetTick
  /\ UNCHANGED <<plantReading, safetyMarginSetting, expectedSetting, miners,
                 modelMaxPreset, devicePreset, testMode>>
  /\ UNCHANGED extVars

\* safety_margin_percent has no row: GetAppSetting returns "setting not
\* found" and balance() returns that error
BalanceNoMargin ==
  /\ TickerFires
  /\ HasPlantReading
  /\ safetyMarginSetting = Absent
  /\ pc' = "done"
  /\ outcome' = "nomargin"
  /\ ResetTick
  /\ UNCHANGED <<plantReading, safetyMarginSetting, expectedSetting, miners,
                 modelMaxPreset, devicePreset, testMode>>
  /\ UNCHANGED extVars

\* |delta| < 2000: balance() returns nil without planning
BalanceWithinTolerance ==
  /\ TickerFires
  /\ HasPlantReading
  /\ safetyMarginSetting # Absent
  /\ withinTolerance(TargetPowerW - TickConsumption)
  /\ pc' = "done"
  /\ outcome' = "tolerance"
  /\ minerEfficiencies' = <<>>
  /\ plannedChanges' = NoPlan
  /\ cooldownMap' = NoCooldowns
  /\ expectedConsumption' = 0
  /\ baselineW' = TickConsumption
  /\ currentConsumptionW' = TickConsumption
  /\ targetPowerW' = TargetPowerW
  /\ delta' = TargetPowerW - TickConsumption
  /\ idx' = 1
  /\ events' = <<>>
  /\ firmwareCalls' = <<>>
  /\ posted' = NoPosted
  /\ storedThisTick' = FALSE
  /\ UNCHANGED <<plantReading, safetyMarginSetting, expectedSetting, miners,
                 modelMaxPreset, devicePreset, testMode>>
  /\ UNCHANGED extVars

\* loadCooldownMap: an empty map when the Store read fails
loadCooldownMap(ok) == IF ok THEN lastPresetChange ELSE NoCooldowns

\* read phase and plan phase (no I/O happens between them)
BalancePlan(loadOk) ==
  /\ TickerFires
  /\ HasPlantReading
  /\ safetyMarginSetting # Absent
  /\ ~withinTolerance(TargetPowerW - TickConsumption)
  /\ \E effs \in SortedEfficiencies(TickEntries, TargetPowerW - TickConsumption) :
       \E plan \in PlanFrom(1, effs, loadCooldownMap(loadOk), TickPresetPowerMap,
                            NoPlan, TickConsumption, TargetPowerW - TickConsumption) :
         /\ minerEfficiencies' = effs
         /\ plannedChanges' = plan.plannedChanges
         /\ expectedConsumption' = plan.expectedConsumption
         /\ delta' = plan.delta
  /\ cooldownMap' = loadCooldownMap(loadOk)
  /\ baselineW' = TickConsumption
  /\ currentConsumptionW' = TickConsumption
  /\ targetPowerW' = TargetPowerW
  /\ idx' = 1
  /\ events' = <<>>
  /\ firmwareCalls' = <<>>
  /\ posted' = NoPosted
  /\ storedThisTick' = FALSE
  /\ pc' = "store"
  /\ outcome' = "planned"
  /\ UNCHANGED <<plantReading, safetyMarginSetting, expectedSetting, miners,
                 modelMaxPreset, devicePreset, testMode>>
  /\ UNCHANGED extVars

\* indices of the apply loop that still have a planned change
PlannedFromStart(i) ==
  {k \in 1..Len(minerEfficiencies) :
     minerEfficiencies[k].miner.ID \in DOMAIN plannedChanges}

PlannedFrom(i) ==
  {k \in i..Len(minerEfficiencies) :
     minerEfficiencies[k].miner.ID \in DOMAIN plannedChanges}

\* postExpectedConsumptionToTestServer: the body sent, if any
postExpectedConsumptionToTestServer(consumptionW) ==
  IF ~testMode THEN NoPosted
  ELSE IF TestServerURL = "" THEN NoPosted
  ELSE [sent |-> TRUE, num |-> consumptionW, den |-> MegaWatt]

\* an apply phase that goes on from the delta the plan phase ended with
deltaOfPlan == delta

\* "Reset delta for actual application"
resetDelta == targetPowerW - currentConsumptionW

\* storeExpectedConsumption, the POST, and the reset of delta for the apply phase
StoreAndPostExpected(storeOk) ==
  /\ pc = "store"
  /\ expectedSetting' = IF storeOk THEN expectedConsumption ELSE expectedSetting
  /\ storedThisTick' = storeOk
  /\ posted' = postExpectedConsumptionToTestServer(expectedConsumption)
  /\ delta' = resetDelta
  /\ pc' = IF PlannedFrom(1) = {} THEN "save" ELSE "apply"
  /\ UNCHANGED <<plantReading, safetyMarginSetting, lastPresetChange, miners,
                 modelMaxPreset, events, lastSuccess, devicePreset, testMode, outcome,
                 minerEfficiencies, plannedChanges, cooldownMap, expectedConsumption,
                 baselineW, currentConsumptionW, targetPowerW, idx, firmwareCalls>>
  /\ UNCHANGED extVars

(* ---------------------------------------------------------------------- *)
(* Apply phase: applyPresetChange over firmware.Client                    *)
(* ---------------------------------------------------------------------- *)
\* what http.Client.Do can hand to Client.do for POST /settings
Responses ==
  {[transportError |-> TRUE, StatusCode |-> 0, decodable |-> FALSE, restart |-> FALSE],
   [transportError |-> FALSE, StatusCode |-> 500, decodable |-> TRUE, restart |-> FALSE],
   [transportError |-> FALSE, StatusCode |-> 300, decodable |-> TRUE, restart |-> FALSE],
   [transportError |-> FALSE, StatusCode |-> 200, decodable |-> TRUE, restart |-> FALSE],
   [transportError |-> FALSE, StatusCode |-> 200, decodable |-> TRUE, restart |-> TRUE]}

\* the error Client.do returns, Nil for none
ClientDo(resp) ==
  IF resp.transportError THEN "request POST /settings"
  ELSE IF resp.StatusCode >= 400 THEN "firmware POST /settings: status"
  ELSE IF ~resp.decodable THEN "decode /settings response"
  ELSE Nil

\* the device changes its preset when it answers the request with 200
DeviceAccepts(resp) == ~resp.transportError /\ resp.StatusCode = 200

BalanceEvent(me, planned, success, errorMessage) ==
  [MinerID |-> me.miner.ID,
   OldPower |-> me.currentPower,
   NewPreset |-> planned.targetPreset,
   NewPower |-> planned.targetPower,
   Success |-> success,
   ErrorMessage |-> errorMessage]

\* one iteration of the apply loop for the next planned miner
ApplyPresetChange(resp, eventOk) ==
  /\ pc = "apply"
  /\ PlannedFrom(idx) # {}
  /\ LET k == Min(PlannedFrom(idx))
         me == minerEfficiencies[k]
         id == me.miner.ID
         planned == plannedChanges[id]
         err == ClientDo(resp)
         powerChange == planned.targetPower - me.currentPower
     IN  IF me.miner.IP = Nil \/ me.miner.APIKey = Nil
         THEN /\ idx' = k + 1
              /\ pc' = IF PlannedFrom(k + 1) = {} THEN "save" ELSE pc
              /\ UNCHANGED <<events, lastSuccess, devicePreset, firmwareCalls,
                             cooldownMap, delta, currentConsumptionW>>
         ELSE IF err # Nil
         THEN /\ firmwareCalls' = Append(firmwareCalls,
                   [op |-> "set_preset", miner |-> id, preset |-> planned.targetPreset,
                    status |-> resp.StatusCode])
              /\ devicePreset' = IF DeviceAccepts(resp)
                                 THEN [devicePreset EXCEPT ![id] = planned.targetPreset]
                                 ELSE devicePreset
              /\ events' = IF eventOk
                           THEN Append(events, BalanceEvent(me, planned, FALSE, err))
                           ELSE events
              /\ idx' = k + 1
              /\ pc' = IF PlannedFrom(k + 1) = {} THEN "save" ELSE pc
              /\ UNCHANGED <<lastSuccess, cooldownMap, delta, currentConsumptionW>>
         ELSE /\ firmwareCalls' =
                   IF resp.restart
                   THEN firmwareCalls \o
                          <<[op |-> "set_preset", miner |-> id, preset |-> planned.targetPreset,
                    status |-> resp.StatusCode],
                            [op |-> "restart", miner |-> id, preset |-> Nil, status |-> 200]>>
                   ELSE Append(firmwareCalls,
                          [op |-> "set_preset", miner |-> id, preset |-> planned.targetPreset,
                    status |-> resp.StatusCode])
              /\ devicePreset' = IF DeviceAccepts(resp)
                                 THEN [devicePreset EXCEPT ![id] = planned.targetPreset]
                                 ELSE devicePreset
              /\ events' = IF eventOk
                           THEN Append(events, BalanceEvent(me, planned, TRUE, Nil))
                           ELSE events
              /\ lastSuccess' = IF eventOk
                                THEN [lastSuccess EXCEPT ![id] = 0]
                                ELSE lastSuccess
              /\ cooldownMap' = [cooldownMap EXCEPT ![id] = 0]
              /\ delta' = delta - powerChange
              /\ currentConsumptionW' = currentConsumptionW + powerChange
              /\ idx' = k + 1
              /\ pc' = IF withinTolerance(delta - powerChange) \/ PlannedFrom(k + 1) = {}
                       THEN "save" ELSE pc
  /\ UNCHANGED <<plantReading, safetyMarginSetting, lastPresetChange, expectedSetting,
                 miners, modelMaxPreset, testMode, outcome,
                 minerEfficiencies, plannedChanges, expectedConsumption, baselineW,
                 targetPowerW, posted, storedThisTick>>
  /\ UNCHANGED extVars

\* saveCooldownMap, whose error is only logged; balance() returns and Run
\* waits for the next tick
SaveCooldownMap(ok) ==
  /\ pc = "save"
  /\ lastPresetChange' =
       [d \in MinerIDs |->
          Elapsed(IF ok THEN cooldownMap[d] ELSE lastPresetChange[d], SinceLastTick)]
  /\ lastSuccess' = [d \in MinerIDs |-> Elapsed(lastSuccess[d], SinceLastTick)]
  /\ expectedSetting' = Absent
  /\ pc' = "idle"
  /\ outcome' = "none"
  /\ ResetTick
  /\ UNCHANGED <<plantReading, safetyMarginSetting, miners, modelMaxPreset,
                 devicePreset, testMode>>
  /\ UNCHANGED extVars

\* balance() has returned without planning; Run waits for the next tick
Return ==
  /\ pc = "done"
  /\ pc' = "idle"
  /\ outcome' = "none"
  /\ ResetTick
  /\ WaitForTicker
  /\ UNCHANGED <<plantReading, safetyMarginSetting, miners, modelMaxPreset,
                 devicePreset, testMode>>
  /\ UNCHANGED extVars

\* the process is stopped in the middle of a tick and started again;
\* only the Store survives
Restart ==
  /\ pc \in {"store", "apply", "save"}
  /\ pc' = "idle"
  /\ outcome' = "none"
  /\ ResetTick
  /\ WaitForTicker
  /\ UNCHANGED <<plantReading, safetyMarginSetting, miners, modelMaxPreset,
                 devicePreset, testMode>>
  /\ UNCHANGED extVars

(* ---------------------------------------------------------------------- *)
(* The other writers of the Store                                         *)
(* ---------------------------------------------------------------------- *)
\* status poller: poll + persistStatus for one eligible miner
RecordMinerStatus(d, report) ==
  /\ pc = "idle"
  /\ miners[d].managed /\ miners[d].ip # Nil /\ miners[d].apiKey # Nil
  /\ miners' = [miners EXCEPT ![d].status =
                  [valid |-> TRUE,
                   preset |-> IF report.perfOk THEN devicePreset[d] ELSE Nil,
                   power |-> report.power,
                   hash |-> report.hash]]
  /\ UNCHANGED <<plantReading, safetyMarginSetting, lastPresetChange, expectedSetting,
                 modelMaxPreset, lastSuccess, devicePreset, testMode, pc, tickVars>>
  /\ UNCHANGED extVars

\* PATCH /api/miners/{id} with managed
updateMiner(d, managed) ==
  /\ pc = "idle"
  /\ miners[d].managed # managed
  /\ miners' = [miners EXCEPT ![d].managed = managed]
  /\ UNCHANGED <<plantReading, safetyMarginSetting, lastPresetChange, expectedSetting,
                 modelMaxPreset, lastSuccess, devicePreset, testMode, pc, tickVars>>
  /\ UNCHANGED extVars

\* discovery: a miner that was not seen in the sweep loses its ip
markOffline(d) ==
  /\ pc = "idle"
  /\ miners[d].ip # Nil
  /\ miners' = [miners EXCEPT ![d].ip = Nil]
  /\ UNCHANGED <<plantReading, safetyMarginSetting, lastPresetChange, expectedSetting,
                 modelMaxPreset, lastSuccess, devicePreset, testMode, pc, tickVars>>
  /\ UNCHANGED extVars

\* discovery: a miner answers the probe; its row gets the ip and the model,
\* and an API key unless it has one or ensureAPIKey fails
applyDiscovery(d, keyOk) ==
  /\ pc = "idle"
  /\ miners[d].ip = Nil
  /\ miners' = [miners EXCEPT ![d].ip = "ip",
                              ![d].model = ModelOf(d),
                              ![d].apiKey = IF miners[d].apiKey # Nil THEN miners[d].apiKey
                                            ELSE IF keyOk THEN "key" ELSE Nil]
  /\ UNCHANGED <<plantReading, safetyMarginSetting, lastPresetChange, expectedSetting,
                 modelMaxPreset, lastSuccess, devicePreset, testMode, pc, tickVars>>
  /\ UNCHANGED extVars

\* plant poller: a reading with confidence above 0.8 is stored
RecordPlantReading(generationKW) ==
  /\ pc = "idle"
  /\ plantReading # generationKW
  /\ plantReading' = generationKW
  /\ UNCHANGED <<safetyMarginSetting, lastPresetChange, expectedSetting, miners,
                 modelMaxPreset, lastSuccess, devicePreset, testMode, pc, tickVars>>
  /\ UNCHANGED extVars

\* the miners the operator toggles, and the miners discovery loses and finds
Operated == {"m1"}
Swept == {"m2"}

Next ==
  \/ BalanceAbort
  \/ BalanceNoReading
  \/ BalanceNoMargin
  \/ BalanceWithinTolerance
  \/ \E loadOk \in BOOLEAN : BalancePlan(loadOk)
  \/ \E storeOk \in BOOLEAN : StoreAndPostExpected(storeOk)
  \/ \E resp \in Responses, eventOk \in BOOLEAN : ApplyPresetChange(resp, eventOk)
  \/ \E ok \in BOOLEAN : SaveCooldownMap(ok)
  \/ Return
  \/ Restart
  \/ \E d \in MinerIDs : \E report \in StatusReports(d) : RecordMinerStatus(d, report)
  \/ \E d \in Operated, managed \in BOOLEAN : updateMiner(d, managed)
  \/ \E d \in Swept : markOffline(d)
  \/ \E d \in Swept, keyOk \in BOOLEAN : applyDiscovery(d, keyOk)
  \/ \E g \in Generations : RecordPlantReading(g)

Spec == Init /\ [][Next]_vars

(* ---------------------------------------------------------------------- *)
(* Steady operation: the plant reading, the margin and the fleet stay as  *)
(* they are, every Store call and every firmware request succeeds, and    *)
(* the status poller (every 15 s, like the balancer) has sampled each     *)
(* miner again before the next tick.                                      *)
(* ---------------------------------------------------------------------- *)
\* the latest status of d shows the preset the device runs
Fresh(d) == miners[d].status.valid /\ miners[d].status.preset = devicePreset[d]

\* the miners the status poller samples
Polled == {d \in MinerIDs :
             miners[d].managed /\ miners[d].ip # Nil /\ miners[d].apiKey # Nil}

SteadyMiner(d) ==
  {[managed |-> TRUE, ip |-> "ip", apiKey |-> "key", model |-> ModelOf(d),
    status |-> NoStatus]}
    \cup (IF d \in Swept THEN {InitialMiner(d)} ELSE {})

SteadyInit ==
  /\ plantReading \in Generations
  /\ safetyMarginSetting \in Margins \ {Absent}
  /\ lastPresetChange = NoCooldowns
  /\ expectedSetting = Absent
  /\ miners \in [MinerIDs -> UNION {SteadyMiner(d) : d \in MinerIDs}]
  /\ \A d \in MinerIDs : miners[d] \in SteadyMiner(d)
  /\ CatalogInit
  /\ lastSuccess = NoCooldowns
  /\ devicePreset \in [MinerIDs -> {"disabled", "low", "mid", "high", "1100", "3010W"}]
  /\ \A d \in MinerIDs : devicePreset[d] \in PowerPresets(ModelOf(d))
  /\ testMode = TRUE
  /\ TickInit
  /\ ExtInit

\* the status poller samples a miner whose preset has changed
SteadyStatus ==
  \E d \in Polled : \E report \in StatusReports(d) :
    /\ ~Fresh(d)
    /\ report.perfOk
    /\ RecordMinerStatus(d, report)

SteadyTick ==
  /\ \A d \in Polled : Fresh(d)
  /\ (BalanceWithinTolerance \/ BalancePlan(TRUE))

SteadyApply ==
  \E resp \in Responses :
    /\ ClientDo(resp) = Nil
    /\ DeviceAccepts(resp)
    /\ ApplyPresetChange(resp, TRUE)

SteadyNext ==
  \/ SteadyStatus
  \/ SteadyTick
  \/ StoreAndPostExpected(TRUE)
  \/ SteadyApply
  \/ SaveCooldownMap(TRUE)
  \/ Return

\* Run: the ticker fires and balance() is entered
SteadyTickerFires ==
  /\ pc = "idle"
  /\ \A d \in Polled : Fresh(d)
  /\ pc' \in {"done", "store"}

\* balance() runs on to its return
SteadyTickRuns ==
  \/ StoreAndPostExpected(TRUE)
  \/ SteadyApply
  \/ SaveCooldownMap(TRUE)
  \/ Return

\* the poller and the ticker keep firing, and a tick runs to its end
SteadySpec ==
  /\ SteadyInit
  /\ [][SteadyNext]_vars
  /\ WF_vars(SteadyStatus)
  /\ WF_pc(SteadyTickerFires)
  /\ WF_vars(SteadyTickRuns)

(* ---------------------------------------------------------------------- *)
(* The plant poller: PlantPoller.poll over Store.RecordPlantReading.      *)
(* Confidence scores are kept in tenths, MW totals as fractions, kW as    *)
(* integers, and instants as integers (0 is the zero time.Time).          *)
(* ---------------------------------------------------------------------- *)
MaxReadings == 3

\* time.Now() of an insert: later than every collection timestamp
PollClock == 2

Milli(n) == [num |-> n, den |-> 1000]

NoReading ==
  [ConfidenceScore |-> 0, GenerationMW |-> Milli(0), ConsumptionMW |-> Milli(0),
   CollectionTimestamp |-> 0]

Reading(score, generation, consumption, ts) ==
  [ConfidenceScore |-> score, GenerationMW |-> Milli(generation),
   ConsumptionMW |-> Milli(consumption), CollectionTimestamp |-> ts]

\* what the plant API can answer to one GET: no answer, a status other than
\* 200, a body that is not JSON, and readings of confidence 0.7, 0.8 and 0.9
PlantResponses ==
  {[transportError |-> TRUE, StatusCode |-> 0, decodable |-> FALSE, reading |-> NoReading],
   [transportError |-> FALSE, StatusCode |-> 503, decodable |-> FALSE, reading |-> NoReading],
   [transportError |-> FALSE, StatusCode |-> 201, decodable |-> TRUE,
    reading |-> Reading(9, 10, 2, 1)],
   [transportError |-> FALSE, StatusCode |-> 200, decodable |-> FALSE, reading |-> NoReading],
   [transportError |-> FALSE, StatusCode |-> 200, decodable |-> TRUE,
    reading |-> Reading(7, 10, 2, 1)],
   [transportError |-> FALSE, StatusCode |-> 200, decodable |-> TRUE,
    reading |-> Reading(8, 10, 2, 1)]}
  \cup {[transportError |-> FALSE, StatusCode |-> 200, decodable |-> TRUE,
         reading |-> Reading(9, g, IF g = 10 THEN 2 ELSE 0, ts)] :
          g \in Generations, ts \in {0, 1}}

\* the error poll returns before it looks at the reading, Nil when there is none
fetchError(resp) ==
  IF resp.transportError THEN "fetch plant data"
  ELSE IF resp.StatusCode # 200 THEN "plant API returned status"
  ELSE IF ~resp.decodable THEN "decode plant response"
  ELSE Nil

\* reading.Trust.ConfidenceScore <= 0.8
LowConfidenceBelow(score) == score < 8

LowConfidence(score) == score <= 8

\* MW * 1000
MWToKW(mw) == (mw.num * 1000) \div mw.den

\* availablePowerKW
AvailablePowerGross(totalGenerationKW, totalConsumptionKW) == totalGenerationKW

AvailablePowerKW(totalGenerationKW, totalConsumptionKW) ==
  totalGenerationKW - totalConsumptionKW

\* the PlantReadingInput poll builds; the raw JSON carries the confidence
PlantReadingInput(reading) ==
  [TotalGeneration |-> MWToKW(reading.GenerationMW),
   TotalContainerConsumption |-> MWToKW(reading.ConsumptionMW),
   AvailablePower |-> AvailablePowerKW(MWToKW(reading.GenerationMW),
                                       MWToKW(reading.ConsumptionMW)),
   RawConfidence |-> reading.ConfidenceScore,
   RecordedAt |-> reading.CollectionTimestamp]

\* the row RecordPlantReading inserts
InsertedRow(input, id) ==
  [ID |-> id,
   TotalGeneration |-> input.TotalGeneration,
   TotalContainerConsumption |-> input.TotalContainerConsumption,
   AvailablePower |-> input.AvailablePower,
   RawConfidence |-> input.RawConfidence,
   RecordedAt |-> IF input.RecordedAt = 0 THEN PollClock ELSE input.RecordedAt]

\* ORDER BY recorded_at DESC, id DESC LIMIT 1
LatestRow(rows) ==
  CHOOSE i \in 1..Len(rows) :
    \A j \in 1..Len(rows) :
      \/ rows[j].RecordedAt < rows[i].RecordedAt
      \/ rows[j].RecordedAt = rows[i].RecordedAt /\ rows[j].ID <= rows[i].ID

\* total_generation of GetLatestPlantReading, Absent for nil
GetLatestPlantReading(rows) ==
  IF rows = <<>> THEN Absent ELSE rows[LatestRow(rows)].TotalGeneration

\* the error poll returns once the reading is taken
storeError(insertOk, readOk) ==
  IF ~insertOk THEN "store plant reading: insert"
  ELSE IF ~readOk THEN "store plant reading: query"
  ELSE Nil

\* one poll.  insertOk: the INSERT succeeds; readOk: LastInsertId and
\* GetPlantReadingByID succeed after it
PlantPoll(resp, insertOk, readOk) ==
  LET fetched == fetchError(resp) = Nil
      skipped == fetched /\ LowConfidence(resp.reading.ConfidenceScore)
      inserted == fetched /\ ~skipped /\ insertOk
      err == IF ~fetched THEN fetchError(resp)
             ELSE IF skipped THEN Nil
             ELSE storeError(insertOk, readOk)
  IN /\ inserted => Len(plantRows) < MaxReadings
     /\ plantRows' =
          IF inserted
          THEN Append(plantRows,
                      InsertedRow(PlantReadingInput(resp.reading), Len(plantRows) + 1))
          ELSE plantRows
     /\ plantPoll' = [resp |-> resp, err |-> err]
     /\ plantReading' = GetLatestPlantReading(plantRows')
     /\ UNCHANGED <<safetyMarginSetting, lastPresetChange, expectedSetting, miners,
                    modelMaxPreset, lastSuccess, devicePreset, testMode, pc, tickVars>>
     /\ UNCHANGED <<discVars, recVars, sideVars>>

\* the poller and the balancer over a fleet with nothing to manage
PlantPollerInit ==
  /\ plantReading = Absent
  /\ safetyMarginSetting \in Margins \ {Absent}
  /\ lastPresetChange = NoCooldowns
  /\ expectedSetting = Absent
  /\ miners = [d \in MinerIDs |-> InitialMiner(d)]
  /\ modelMaxPreset = [a \in ModelAliases |-> Nil]
  /\ lastSuccess = NoCooldowns
  /\ devicePreset = [d \in MinerIDs |-> "disabled"]
  /\ testMode = TRUE
  /\ TickInit
  /\ PlantInit
  /\ DiscInit
  /\ RecInit
  /\ SideInit

PlantNext ==
  \/ \E resp \in PlantResponses : \E insertOk, readOk \in BOOLEAN :
       PlantPoll(resp, insertOk, readOk)
  \/ BalanceAbort
  \/ BalanceNoReading
  \/ \E loadOk \in BOOLEAN : BalancePlan(loadOk)
  \/ \E storeOk \in BOOLEAN : StoreAndPostExpected(storeOk)
  \/ \E saveOk \in BOOLEAN : SaveCooldownMap(saveOk)
  \/ Return

PlantSpec == PlantPollerInit /\ [][PlantNext]_vars

(* ---------------------------------------------------------------------- *)
(* Discovery: Discoverer.scan, applyDiscovery, ensureAPIKey, markOffline, *)
(* next to the operator's PATCH of a model and the status poller.  A      *)
(* device is identified with its MAC; which devices answer a sweep is an  *)
(* input of scan.                                                         *)
(* ---------------------------------------------------------------------- *)
apiKeyDescription == "PowerHive"

\* the key generateAPIKey returns
GeneratedKey == "generated"

\* what a device can list before PowerHive has created a key on it
KeyListings ==
  {{},
   {[Description |-> "other", Key |-> "devkey"]},
   {[Description |-> "powerhive", Key |-> "devkey"]},
   {[Description |-> "PowerHive", Key |-> " "]}}

\* strings.EqualFold on the descriptions of KeyListings
Fold(s) == IF s \in {"PowerHive", "POWERHIVE"} THEN "powerhive" ELSE s

EqualFold(a, b) == Fold(a) = Fold(b)

\* the characters of the key strings
KeyChars(value) ==
  CASE value = "" -> <<>>
    [] value = " " -> <<" ">>
    [] value = "key" -> <<"k", "e", "y">>
    [] value = "devkey" -> <<"d", "e", "v", "k", "e", "y">>
    [] value = "generated" -> <<"g", "e", "n", "e", "r", "a", "t", "e", "d">>

\* strings.TrimSpace(s) != ""
NonBlank(s) == TrimSpace(KeyChars(s)) # <<>>

\* miner.APIKey != nil && strings.TrimSpace(*miner.APIKey) != ""
hasStoredKeyNever(apiKey) == FALSE

hasStoredKey(apiKey) == apiKey # Nil /\ NonBlank(apiKey)

\* the listed keys ensureAPIKey takes as PowerHive's own
OwnKeys(keys) ==
  {k \in keys : EqualFold(k.Description, apiKeyDescription) /\ NonBlank(k.Key)}

\* the step of ensureAPIKey that fails, if it is reached: Unlock,
\* ListAPIKeys, CreateAPIKey, storeAPIKey, or none
KeyFailures == {"unlock", "list", "create", "store", "none"}

\* ensureAPIKey for device d: the calls it makes to the device, the api_key
\* stored afterwards and the keys the device lists afterwards
ensureAPIKey(d, keyFails) ==
  LET stored == miners[d].apiKey
      keys == deviceKeys[d]
      call(op) == [op |-> op, miner |-> d]
  IN  IF hasStoredKey(stored)
      THEN [calls |-> {}, apiKey |-> stored, keys |-> keys]
      ELSE IF keyFails = "unlock"
      THEN [calls |-> {call("unlock")}, apiKey |-> stored, keys |-> keys]
      ELSE IF keyFails = "list"
      THEN [calls |-> {call("unlock"), call("list")}, apiKey |-> stored, keys |-> keys]
      ELSE IF OwnKeys(keys) # {}
      THEN [calls |-> {call("unlock"), call("list")},
            apiKey |-> IF keyFails = "store" THEN stored
                       ELSE (CHOOSE k \in OwnKeys(keys) : TRUE).Key,
            keys |-> keys]
      ELSE IF keyFails = "create"
      THEN [calls |-> {call("unlock"), call("list"), call("create")},
            apiKey |-> stored, keys |-> keys]
      ELSE [calls |-> {call("unlock"), call("list"), call("create")},
            apiKey |-> IF keyFails = "store" THEN stored ELSE GeneratedKey,
            keys |-> keys \cup {[Description |-> apiKeyDescription, Key |-> GeneratedKey]}]

\* scan up to the first applyDiscovery.  hosts: enumerateHosts returns at
\* least one address; candidates: devices that accept the TCP connect;
\* probed: those of them that answer info() and model()
scan(hosts, candidates, probed) ==
  /\ scanPc = "idle"
  /\ hosts \/ candidates = {}
  /\ seen' = probed
  /\ resultCh' = probed
  /\ discovered' = {}
  /\ current' = NoCurrent
  /\ discoveryCalls' = {}
  /\ scanPc' = IF ~hosts THEN "idle" ELSE IF probed = {} THEN "mark" ELSE "apply"
  /\ scanEnded' = IF ~hosts THEN "nohosts" ELSE "running"
  /\ UNCHANGED <<deviceKeys, sideVars, plantVars, recVars, storeVars, devicePreset, testMode, pc,
                 tickVars>>

\* the next result leaves the channel
NextResult(d) ==
  /\ resultCh' = resultCh \ {d}
  /\ scanPc' = IF resultCh \ {d} = {} THEN "mark" ELSE "apply"

\* applyDiscovery up to GetModelByAlias.  identified: the answers carry a
\* MAC and a model alias; readOk: GetModelByAlias returns the model
applyDiscoveryRead(d, identified, readOk) ==
  /\ scanPc = "apply"
  /\ current = NoCurrent
  /\ d \in resultCh
  /\ IF identified
     THEN /\ current' = [miner |-> d,
                         maxPreset |-> IF readOk THEN modelMaxPreset[ModelOf(d)] ELSE Nil]
          /\ UNCHANGED <<resultCh, scanPc>>
     ELSE /\ current' = NoCurrent
          /\ NextResult(d)
  /\ UNCHANGED <<seen, discovered, scanEnded, deviceKeys, discoveryCalls, sideVars, plantVars,
                 recVars,
                 storeVars, devicePreset, testMode, pc, tickVars>>

\* applyDiscovery from UpsertModel on.  The models of the catalog have
\* presets, so fetchPresets is not called
applyDiscoveryWrite(modelOk, minerOk, keyFails) ==
  LET d == current.miner
      key == ensureAPIKey(d, keyFails)
  IN  /\ scanPc = "apply"
      /\ current # NoCurrent
      /\ modelMaxPreset' =
           IF modelOk THEN [modelMaxPreset EXCEPT ![ModelOf(d)] = current.maxPreset]
           ELSE modelMaxPreset
      /\ IF modelOk /\ minerOk
         THEN /\ miners' = [miners EXCEPT ![d].ip = "ip",
                                          ![d].model = ModelOf(d),
                                          ![d].apiKey = key.apiKey]
              /\ discovered' = discovered \cup {d}
              /\ discoveryCalls' = discoveryCalls \cup key.calls
              /\ deviceKeys' = [deviceKeys EXCEPT ![d] = key.keys]
         ELSE UNCHANGED <<miners, discovered, discoveryCalls, deviceKeys>>
      /\ current' = NoCurrent
      /\ NextResult(d)
      /\ UNCHANGED <<seen, scanEnded, sideVars, plantVars, recVars, plantReading, safetyMarginSetting,
                     lastPresetChange, expectedSetting, lastSuccess, devicePreset,
                     testMode, pc, tickVars>>

\* markOffline at the end of scan.  listOk: ListMiners succeeds; failed:
\* the miners whose UpsertMiner fails
scanMarkOffline(listOk, failed) ==
  /\ scanPc = "mark"
  /\ miners' =
       [d \in MinerIDs |->
          IF listOk /\ d \notin discovered /\ miners[d].ip # Nil /\ d \notin failed
          THEN [miners[d] EXCEPT !.ip = Nil]
          ELSE miners[d]]
  /\ scanPc' = "idle"
  /\ scanEnded' = IF listOk THEN "marked" ELSE "listfailed"
  /\ UNCHANGED <<seen, resultCh, discovered, current, deviceKeys, discoveryCalls,
                 sideVars, plantVars, recVars, plantReading, safetyMarginSetting, lastPresetChange,
                 expectedSetting, modelMaxPreset, lastSuccess, devicePreset, testMode,
                 pc, tickVars>>

\* PATCH /api/models/{alias} with a max_preset: empty (Nil) or one of the
\* model's presets
updateModel(alias, maxPreset) ==
  /\ maxPreset \in {Nil} \cup SeqToSet(ModelPresetValues(alias))
  /\ modelMaxPreset[alias] # maxPreset
  /\ modelMaxPreset' = [modelMaxPreset EXCEPT ![alias] = maxPreset]
  /\ UNCHANGED <<sideVars, plantVars, discVars, recVars, plantReading, safetyMarginSetting,
                 lastPresetChange, expectedSetting, miners, lastSuccess, devicePreset,
                 testMode, pc, tickVars>>

\* the model whose max_preset the operator patches
Patched == {"Y"}

\* what a device lists once its key "key" has been stored
ProvisionedKeys == {[Description |-> apiKeyDescription, Key |-> "key"]}

\* both devices were discovered and provisioned by an earlier run, except
\* that m2 may have no key yet
DiscoveredMiner(d) ==
  {[managed |-> TRUE, ip |-> "ip", apiKey |-> k, model |-> ModelOf(d),
    status |-> NoStatus] : k \in IF d = "m1" THEN {"key"} ELSE {Nil, "key"}}

DiscoveryInit ==
  /\ plantReading = Absent
  /\ safetyMarginSetting = DefaultSafetyMargin
  /\ lastPresetChange = NoCooldowns
  /\ expectedSetting = Absent
  /\ miners \in [MinerIDs -> UNION {DiscoveredMiner(d) : d \in MinerIDs}]
  /\ \A d \in MinerIDs : miners[d] \in DiscoveredMiner(d)
  /\ CatalogInit
  /\ lastSuccess = NoCooldowns
  /\ devicePreset = [d \in MinerIDs |-> "disabled"]
  /\ testMode = TRUE
  /\ TickInit
  /\ PlantInit
  /\ RecInit
  /\ SideInit
  /\ ScanInit
  /\ deviceKeys \in [MinerIDs -> KeyListings \cup {ProvisionedKeys}]
  /\ \A d \in MinerIDs : miners[d].apiKey # Nil <=> deviceKeys[d] = ProvisionedKeys

DiscoveryNext ==
  \/ \E hosts \in BOOLEAN : \E candidates \in SUBSET MinerIDs :
       \E probed \in SUBSET candidates : scan(hosts, candidates, probed)
  \/ \E d \in MinerIDs : \E identified, readOk \in BOOLEAN :
       applyDiscoveryRead(d, identified, readOk)
  \/ \E modelOk, minerOk \in BOOLEAN : \E keyFails \in KeyFailures :
       applyDiscoveryWrite(modelOk, minerOk, keyFails)
  \/ \E listOk \in BOOLEAN : \E failed \in SUBSET MinerIDs : scanMarkOffline(listOk, failed)
  \/ \E alias \in Patched : \E maxPreset \in MaxPresetChoices(alias) \cup {Nil} :
       updateModel(alias, maxPreset)
  \/ \E d \in Swept : \E report \in StatusReports(d) : RecordMinerStatus(d, report)

DiscoverySpec == DiscoveryInit /\ [][DiscoveryNext]_vars

(* ---------------------------------------------------------------------- *)
(* Store.RecordMinerStatus: one transaction per call.  db is the          *)
(* committed state, which is what every other reader of the Store sees;   *)
(* the statements of an open transaction work on txn.work.  The pool has  *)
(* one connection, so one transaction is open at a time.                  *)
(* ---------------------------------------------------------------------- *)
MaxStatuses == 2

\* the miner ids a caller can pass: "ghost" has no row in miners
Callers == MinerIDs \cup {"ghost"}

\* number of fans, of chains, and of chips per chain of a MinerStatusInput
StatusInputs ==
  {[Fans |-> 0, Chains |-> 0, Chips |-> 0],
   [Fans |-> 2, Chains |-> 1, Chips |-> 2]}

Stmt(kind, a, b) == [kind |-> kind, a |-> a, b |-> b]

\* the statements RecordMinerStatus executes for an input, in order
Statements(input) ==
  <<Stmt("status", 0, 0)>>
  \o [i \in 1..input.Fans |-> Stmt("fan", i, 0)]
  \o [p \in 1..(input.Chains * (1 + input.Chips)) |->
        LET j == ((p - 1) \div (1 + input.Chips)) + 1
            r == (p - 1) % (1 + input.Chips)
        IN  IF r = 0 THEN Stmt("chain", j, 0) ELSE Stmt("chip", j, r)]
  \o <<Stmt("latest", 0, 0)>>

\* LastInsertId of the status row
NextStatusID(tables) ==
  IF tables.statuses = {} THEN 1 ELSE Max({s.id : s \in tables.statuses}) + 1

\* RowsAffected of UPDATE miners ... WHERE id = ?
RowsAffected(minerID) == IF minerID \in MinerIDs THEN 1 ELSE 0

\* the tables of the transaction after one statement
Exec(work, stmt, id, minerID, input) ==
  CASE stmt.kind = "status" ->
         [work EXCEPT !.statuses = @ \cup {[id |-> id, miner |-> minerID, input |-> input]}]
    [] stmt.kind = "fan" -> [work EXCEPT !.fans = @ \cup {<<id, stmt.a>>}]
    [] stmt.kind = "chain" -> [work EXCEPT !.chains = @ \cup {<<id, stmt.a>>}]
    [] stmt.kind = "chip" -> [work EXCEPT !.chips = @ \cup {<<id, stmt.a, stmt.b>>}]
    [] stmt.kind = "latest" ->
         IF RowsAffected(minerID) = 0 THEN work
         ELSE [work EXCEPT !.latest[minerID] = id]

\* the committed state after tx.Rollback
AfterRollbackPartial(committed, work) == work

AfterRollback(committed, work) == committed

\* what the call returns.  storeError: a statement, the commit or the
\* read-back failed
Returned(result, committed, failed) ==
  [miner |-> txn.miner, id |-> txn.id, result |-> result, pos |-> txn.pos,
   committed |-> committed, storeError |-> failed]

\* BeginTx
RecordBegin(minerID, input, ok) ==
  /\ ~txn.open
  /\ Cardinality(db.statuses) < MaxStatuses
  /\ IF ok
     THEN /\ txn' = [open |-> TRUE, miner |-> minerID, input |-> input, pos |-> 1,
                     id |-> NextStatusID(db), work |-> db]
          /\ UNCHANGED lastCall
     ELSE /\ txn' = NoTxn
          /\ lastCall' = [miner |-> minerID, id |-> 0, result |-> "error", pos |-> 0,
                          committed |-> FALSE, storeError |-> TRUE]
  /\ UNCHANGED <<db, sideVars, plantVars, discVars, storeVars, devicePreset, testMode, pc,
                 tickVars>>

\* the next statement of the transaction.  ok: the statement succeeds (it
\* fails on a Store error, on a constraint of the schema or when the
\* context is cancelled); a failure returns through the deferred Rollback
RecordExec(ok) ==
  LET stmt == Statements(txn.input)[txn.pos]
      work == Exec(txn.work, stmt, txn.id, txn.miner, txn.input)
      accepted == ok
      found == stmt.kind = "latest" => RowsAffected(txn.miner) # 0
  IN  /\ txn.open
      /\ txn.pos <= Len(Statements(txn.input))
      /\ IF accepted /\ found
         THEN /\ txn' = [txn EXCEPT !.pos = @ + 1, !.work = work]
              /\ UNCHANGED <<db, lastCall>>
         ELSE /\ db' = AfterRollback(db, IF accepted THEN work ELSE txn.work)
              /\ txn' = NoTxn
              /\ lastCall' = Returned(IF accepted THEN "not found" ELSE "error", FALSE,
                                       ~accepted)
      /\ UNCHANGED <<sideVars, plantVars, discVars, storeVars, devicePreset, testMode, pc,
                     tickVars>>

\* tx.Commit and the read-back with GetStatusByID
RecordCommit(ok, readOk) ==
  /\ txn.open
  /\ txn.pos > Len(Statements(txn.input))
  /\ db' = IF ok THEN txn.work ELSE AfterRollback(db, txn.work)
  /\ txn' = NoTxn
  /\ lastCall' = Returned(IF ok /\ readOk THEN "ok" ELSE "error", ok, ~(ok /\ readOk))
  /\ UNCHANGED <<sideVars, plantVars, discVars, storeVars, devicePreset, testMode, pc, tickVars>>

RecordInit ==
  /\ plantReading = Absent
  /\ safetyMarginSetting = DefaultSafetyMargin
  /\ lastPresetChange = NoCooldowns
  /\ expectedSetting = Absent
  /\ miners = [d \in MinerIDs |-> InitialMiner(d)]
  /\ modelMaxPreset = [a \in ModelAliases |-> Nil]
  /\ lastSuccess = NoCooldowns
  /\ devicePreset = [d \in MinerIDs |-> "disabled"]
  /\ testMode = TRUE
  /\ TickInit
  /\ ExtInit

RecordNext ==
  \/ \E minerID \in Callers : \E input \in StatusInputs : \E ok \in BOOLEAN :
       RecordBegin(minerID, input, ok)
  \/ \E ok \in BOOLEAN : RecordExec(ok)
  \/ \E ok, readOk \in BOOLEAN : RecordCommit(ok, readOk)

RecordSpec == RecordInit /\ [][RecordNext]_vars

(* ---------------------------------------------------------------------- *)
(* Store.UpsertModel.  Strings of the inputs are kept as their sequences  *)
(* of characters; a NULL column or a nil pointer is a record with null    *)
(* set.  The pool has one connection, so a transaction runs without any   *)
(* other statement in between and is one step; failAt is the statement at *)
(* which the call fails (0: none).                                        *)
(* ---------------------------------------------------------------------- *)
Str(v) == [null |-> FALSE, value |-> v]

List(items) == [null |-> FALSE, items |-> items]

\* the presets of an input: none given, an empty slice, distinct values,
\* values that differ in case and blanks only, a repeated value, a blank
PresetLists ==
  {NullList, List(<<>>), List(<<<<"a">>>>), List(<<<<"a">>, <<"b">>>>),
   List(<<<<" ", "A">>, <<"b">>>>), List(<<<<"a">>, <<" ", "A">>>>),
   List(<<<<"b">>, <<"b">>>>), List(<<<<"a">>, <<" ">>>>)}

MaxPresetInputs == {NullString, Str(<<"a">>), Str(<<"c">>), Str(<<" ">>)}

ModelName == <<"n">>

AliasChars(alias) ==
  CASE alias = "X" -> <<"X">>
    [] alias = "Y" -> <<"Y">>
    [] alias = " " -> <<" ">>

\* the inputs with a name and an alias, one without a name and one without
\* an alias
ModelInputs ==
  [Name : {ModelName}, Alias : {"X"}, Presets : PresetLists, MaxPreset : MaxPresetInputs]
  \cup {[Name |-> <<" ">>, Alias |-> "X", Presets |-> List(<<<<"a">>>>),
         MaxPreset |-> NullString],
        [Name |-> ModelName, Alias |-> " ", Presets |-> List(<<<<"a">>>>),
         MaxPreset |-> NullString]}

\* strings.ToLower on the strings of the inputs
LowerChar(c) == IF c = "A" THEN "a" ELSE IF c = "B" THEN "b" ELSE ToLower(c)

LowerString(s) == [i \in DOMAIN s |-> LowerChar(s[i])]

\* the seen map of validateModelInput holds the key of presets[idx]
seenBeforeNever(presets, at) == FALSE

seenBefore(presets, at) ==
  \E j \in 1..(at - 1) :
    LowerString(TrimSpace(presets[j])) = LowerString(TrimSpace(presets[at]))

presetError(presets, at) ==
  IF TrimSpace(presets[at]) = <<>> THEN "preset is empty"
  ELSE IF seenBefore(presets, at) THEN "duplicate preset value"
  ELSE Nil

\* Nil when the input is accepted
validateModelInput(input) ==
  LET bad == {at \in DOMAIN input.Presets.items : presetError(input.Presets.items, at) # Nil}
  IN  IF TrimSpace(input.Name) = <<>> THEN "model name is required"
      ELSE IF TrimSpace(AliasChars(input.Alias)) = <<>> THEN "model alias is required"
      ELSE IF bad # {} THEN presetError(input.Presets.items, Min(bad))
      ELSE Nil

nullableTrimmedString(value) ==
  IF value.null \/ TrimSpace(value.value) = <<>> THEN NullString
  ELSE Str(TrimSpace(value.value))

\* the statements of one UpsertModel call, in order
ModelStatements(input) ==
  <<[kind |-> "begin", idx |-> 0], [kind |-> "upsert", idx |-> 0],
    [kind |-> "lookup", idx |-> 0]>>
  \o (IF input.Presets.null THEN <<>>
      ELSE <<[kind |-> "delete", idx |-> 0]>>
           \o [i \in DOMAIN input.Presets.items |-> [kind |-> "insert", idx |-> i - 1]])
  \o <<[kind |-> "commit", idx |-> 0], [kind |-> "read", idx |-> 0]>>

\* one statement on the tables the transaction sees
ExecModel(tables, stmt, input) ==
  CASE stmt.kind = "upsert" ->
         [tables EXCEPT !.models[input.Alias] =
            [exists |-> TRUE, name |-> input.Name,
             max_preset |-> nullableTrimmedString(input.MaxPreset)]]
    [] stmt.kind = "delete" -> [tables EXCEPT !.presets[input.Alias] = <<>>]
    [] stmt.kind = "insert" ->
         [tables EXCEPT !.presets[input.Alias] =
            Append(@, [value |-> TrimSpace(input.Presets.items[stmt.idx + 1]),
                       position |-> stmt.idx, power |-> NoW])]
    [] OTHER -> tables

\* the tables after the first n statements
RECURSIVE RunModel(_, _, _, _)
RunModel(tables, stmts, n, input) ==
  IF n = 0 THEN tables
  ELSE ExecModel(RunModel(tables, stmts, n - 1, input), stmts[n], input)

\* the tables, the return value and whether the call committed
UpsertModelOutcome(input, failAt) ==
  LET invalid == validateModelInput(input)
      stmts == ModelStatements(input)
      committedTables == [models |-> modelTable, presets |-> presetTable]
      executed == IF failAt = 0 THEN Len(stmts) ELSE failAt - 1
      work == RunModel(committedTables, stmts, executed, input)
      \* the rows are kept when Commit has returned nil
      kept == invalid = Nil /\ (failAt = 0 \/ failAt = Len(stmts))
  IN  [tables |-> IF kept THEN work
                  ELSE IF invalid # Nil THEN committedTables
                  ELSE AfterRollback(committedTables, work),
       result |-> IF invalid # Nil THEN invalid
                  ELSE IF failAt = 0 THEN "ok" ELSE "error",
       committed |-> kept]

\* the statements at which a call can fail (0: it does not fail)
FailPoints == 0..Max({Len(ModelStatements(input)) : input \in ModelInputs})

\* a failure point of the call: a statement of a call that passed validation
FailsAt(input, failAt) ==
  /\ failAt <= Len(ModelStatements(input))
  /\ validateModelInput(input) # Nil => failAt = 0

UpsertModel(input, failAt) ==
  LET out == UpsertModelOutcome(input, failAt)
  IN  /\ pc = "idle"
      /\ FailsAt(input, failAt)
      /\ modelTable' = out.tables.models
      /\ presetTable' = out.tables.presets
      /\ apiCall' = [op |-> "UpsertModel", input |-> input, result |-> out.result,
                     committed |-> out.committed]
      /\ UNCHANGED <<patch, minerTable, minerCall, pollVars, appVars, connVars, plantVars, discVars, recVars,
                     storeVars, devicePreset, testMode, pc, tickVars>>

\* the max_preset fields of a PATCH body: absent, a preset, a preset in
\* another case and with blanks, a string that is no preset, blanks
RequestMaxPresets == {NullString, Str(<<"a">>), Str(<<" ", "A">>), Str(<<"c">>), Str(<<" ">>)}

containsCaseInsensitive(values, target) ==
  \E i \in DOMAIN values :
    LowerString(TrimSpace(values[i])) = TrimSpace(LowerString(target))

\* Model.Presets as loadPresetsTx returns it
PresetsOf(alias) == [i \in DOMAIN presetTable[alias] |-> presetTable[alias][i].value]

\* PATCH /api/models/{alias} up to its call of UpsertModel: the read of the
\* model and the test of the request.  readOk: GetModelByAlias meets no
\* Store error
ServerGetModel(alias, req, readOk) ==
  LET model == modelTable[alias]
      value == TrimSpace(req.value)
      status == IF ~readOk THEN "500"
                ELSE IF ~model.exists THEN "404"
                ELSE IF req.null THEN "400"
                ELSE IF value # <<>> /\ ~containsCaseInsensitive(PresetsOf(alias), value)
                THEN "400"
                ELSE Nil
      input == [Name |-> model.name, Alias |-> alias, Presets |-> NullList,
                MaxPreset |-> IF value = <<>> THEN NullString ELSE Str(value)]
  IN  /\ pc = "idle"
      /\ ~patch.open
      /\ IF status = Nil
         THEN /\ patch' = [open |-> TRUE, input |-> input]
              /\ UNCHANGED apiCall
         ELSE /\ apiCall' = [op |-> "updateModel", input |-> NoModelInput,
                             result |-> status, committed |-> FALSE]
              /\ UNCHANGED patch
      /\ UNCHANGED <<modelTable, presetTable, minerTable, minerCall, pollVars, appVars, connVars, plantVars, discVars,
                     recVars, storeVars, devicePreset, testMode, pc, tickVars>>

\* the UpsertModel call of the PATCH and its response
ServerUpsertModel(failAt) ==
  LET out == UpsertModelOutcome(patch.input, failAt)
  IN  /\ pc = "idle"
      /\ patch.open
      /\ FailsAt(patch.input, failAt)
      /\ modelTable' = out.tables.models
      /\ presetTable' = out.tables.presets
      /\ apiCall' = [op |-> "updateModel", input |-> patch.input,
                     result |-> IF out.result = "ok" THEN "200" ELSE "500",
                     committed |-> out.committed]
      /\ patch' = NoPatch
      /\ UNCHANGED <<minerTable, minerCall, pollVars, appVars, connVars, plantVars, discVars, recVars, storeVars,
                     devicePreset, testMode, pc, tickVars>>

ModelInit ==
  /\ plantReading = Absent
  /\ safetyMarginSetting = DefaultSafetyMargin
  /\ lastPresetChange = NoCooldowns
  /\ expectedSetting = Absent
  /\ miners = [d \in MinerIDs |-> InitialMiner(d)]
  /\ modelMaxPreset = [a \in ModelAliases |-> Nil]
  /\ lastSuccess = NoCooldowns
  /\ devicePreset = [d \in MinerIDs |-> "disabled"]
  /\ testMode = TRUE
  /\ TickInit
  /\ ExtInit

ModelNext ==
  \/ \E input \in ModelInputs : \E failAt \in FailPoints : UpsertModel(input, failAt)
  \/ \E req \in RequestMaxPresets : \E readOk \in BOOLEAN : ServerGetModel("X", req, readOk)
  \/ \E failAt \in FailPoints : ServerUpsertModel(failAt)

ModelSpec == ModelInit /\ [][ModelNext]_vars

(* ---------------------------------------------------------------------- *)
(* Store.UpsertMiner: one transaction per call, one step.                 *)
(* ---------------------------------------------------------------------- *)
Bool(b) == [null |-> FALSE, value |-> b]

IDChars(d) == IF d = "m1" THEN <<"m", "1">> ELSE <<"m", "2">>

\* the row a trimmed id names, Nil if none of the fleet
MinerOfChars(chars) ==
  IF \E d \in MinerIDs : IDChars(d) = chars
  THEN CHOOSE d \in MinerIDs : IDChars(d) = chars
  ELSE Nil

\* the model a trimmed alias names, Nil if none of the catalog
ModelOfChars(chars) ==
  IF \E a \in ModelAliases : AliasChars(a) = chars
  THEN CHOOSE a \in ModelAliases : AliasChars(a) = chars
  ELSE Nil

\* the calls: every choice of supplying ip, managed, unlock_pass and
\* model_alias, and calls with an api_key, with blank fields, with managed
\* false, with an unknown alias and with a blank id
UpsertMinerParams ==
  [ID : {IDChars("m1")}, IP : {NullString, Str(<<"i">>)}, APIKey : {NullString},
   Managed : {NullBool, Bool(TRUE)}, UnlockPass : {NullString, Str(<<" ", "p">>)},
   ModelAlias : {NullString, Str(<<"X">>)}]
  \cup {[NoParams EXCEPT !.ID = IDChars("m1"), !.APIKey = k] : k \in {Str(<<"k">>), Str(<<" ">>)}}
  \cup {[NoParams EXCEPT !.ID = IDChars("m1"), !.IP = Str(<<" ">>)],
        [NoParams EXCEPT !.ID = IDChars("m1"), !.Managed = Bool(FALSE)],
        [NoParams EXCEPT !.ID = IDChars("m1"), !.UnlockPass = Str(<<" ">>)],
        [ID |-> IDChars("m1"), IP |-> Str(<<"i">>), APIKey |-> Str(<<"k">>),
         Managed |-> Bool(TRUE), UnlockPass |-> Str(<<" ">>), ModelAlias |-> Str(<<"X">>)],
        [NoParams EXCEPT !.ID = IDChars("m1"), !.ModelAlias = Str(<<" ">>)],
        [NoParams EXCEPT !.ID = IDChars("m1"), !.ModelAlias = Str(<<"Y">>)],
        [NoParams EXCEPT !.ID = <<" ">>, !.Managed = Bool(TRUE)]}

\* the managed value of a row the INSERT creates; the schema decides it
SchemaDefaults == BOOLEAN

\* the row INSERT INTO miners (id) creates
InsertedMiner(managed) ==
  [NoMiner EXCEPT !.exists = TRUE, !.managed = managed, !.unlock_pass = <<"a", "d", "m", "i", "n">>]

\* the column a string parameter leaves: untouched when nil, NULL when
\* blank, the trimmed value otherwise
setColumnAlways(old, param) ==
  IF param.null \/ TrimSpace(param.value) = <<>> THEN NullString ELSE Str(TrimSpace(param.value))

setColumn(old, param) ==
  IF param.null THEN old
  ELSE IF TrimSpace(param.value) = <<>> THEN NullString
  ELSE Str(TrimSpace(param.value))

\* the sets slice is not empty
HasSets(params) ==
  ~params.IP.null \/ ~params.APIKey.null \/ ~params.Managed.null
  \/ ~params.UnlockPass.null \/ ~params.ModelAlias.null

\* the error UpsertMiner returns between its INSERT and its UPDATE, Nil if none
paramError(params, models) ==
  IF ~params.UnlockPass.null /\ TrimSpace(params.UnlockPass.value) = <<>>
  THEN "unlock password cannot be empty"
  ELSE IF params.ModelAlias.null THEN Nil
  ELSE IF TrimSpace(params.ModelAlias.value) = <<>> THEN "model alias cannot be empty"
  ELSE IF ModelOfChars(TrimSpace(params.ModelAlias.value)) = Nil THEN "model alias not found"
  ELSE IF ~models[ModelOfChars(TrimSpace(params.ModelAlias.value))].exists
  THEN "model alias not found"
  ELSE Nil

\* the statements of a call that returns no error of its own, in order
MinerStatements(params) ==
  <<"begin", "ensure">>
  \o (IF params.ModelAlias.null THEN <<>> ELSE <<"lookup">>)
  \o (IF HasSets(params) THEN <<"update">> ELSE <<>>)
  \o <<"commit", "read">>

ExecMiner(rows, stmt, params, managed) ==
  LET d == MinerOfChars(TrimSpace(params.ID))
  IN  CASE stmt = "ensure" ->
             IF rows[d].exists THEN rows ELSE [rows EXCEPT ![d] = InsertedMiner(managed)]
        [] stmt = "update" ->
             [rows EXCEPT ![d] =
                [@ EXCEPT !.ip = setColumn(@, params.IP),
                          !.api_key = setColumn(@, params.APIKey),
                          !.managed = IF params.Managed.null THEN @ ELSE params.Managed.value,
                          !.unlock_pass = IF params.UnlockPass.null THEN @
                                          ELSE TrimSpace(params.UnlockPass.value),
                          !.model = IF params.ModelAlias.null THEN @
                                    ELSE ModelOfChars(TrimSpace(params.ModelAlias.value)),
                          !.updated_at = "set"]]
        [] OTHER -> rows

RECURSIVE RunMiner(_, _, _, _, _)
RunMiner(rows, stmts, n, params, managed) ==
  IF n = 0 THEN rows
  ELSE ExecMiner(RunMiner(rows, stmts, n - 1, params, managed), stmts[n], params, managed)

\* the INSERT is the second statement
EnsureAt == Len(<<"begin", "ensure">>)

\* the rows, the return value and whether the call committed
UpsertMinerOutcome(params, failAt, managed) ==
  LET stmts == MinerStatements(params)
      invalid == paramError(params, modelTable)
      \* the call returns its own error once the INSERT has run
      stopped == invalid # Nil /\ (failAt = 0 \/ failAt > EnsureAt)
      executed == IF stopped THEN EnsureAt
                  ELSE IF failAt = 0 THEN Len(stmts) ELSE failAt - 1
      work == RunMiner(minerTable, stmts, executed, params, managed)
      kept == ~stopped /\ (failAt = 0 \/ failAt = Len(stmts))
  IN  IF TrimSpace(params.ID) = <<>>
      THEN [rows |-> minerTable, result |-> "miner id is required", committed |-> FALSE]
      ELSE [rows |-> IF kept THEN work ELSE AfterRollback(minerTable, work),
            result |-> IF stopped THEN invalid
                       ELSE IF failAt = 0 THEN "ok" ELSE "error",
            committed |-> kept]

MinerFailPoints == 0..Max({Len(MinerStatements(params)) : params \in UpsertMinerParams})

UpsertMiner(params, failAt, managed) ==
  LET out == UpsertMinerOutcome(params, failAt, managed)
  IN  /\ pc = "idle"
      /\ failAt <= Len(MinerStatements(params))
      /\ TrimSpace(params.ID) = <<>> => failAt = 0
      /\ minerTable' = out.rows
      /\ minerCall' = [params |-> params, result |-> out.result, committed |-> out.committed]
      /\ UNCHANGED <<modelTable, presetTable, apiCall, patch, pollVars, appVars, connVars, plantVars, discVars, recVars,
                     storeVars, devicePreset, testMode, pc, tickVars>>

\* discovery has stored model X and miner m2; m1 is not known yet
MinerInit ==
  /\ plantReading = Absent
  /\ safetyMarginSetting = DefaultSafetyMargin
  /\ lastPresetChange = NoCooldowns
  /\ expectedSetting = Absent
  /\ miners = [d \in MinerIDs |-> InitialMiner(d)]
  /\ modelMaxPreset = [a \in ModelAliases |-> Nil]
  /\ lastSuccess = NoCooldowns
  /\ devicePreset = [d \in MinerIDs |-> "disabled"]
  /\ testMode = TRUE
  /\ TickInit
  /\ PlantInit
  /\ DiscInit
  /\ RecInit
  /\ modelTable = [a \in ModelAliases |->
                     IF a = "X" THEN [exists |-> TRUE, name |-> ModelName,
                                      max_preset |-> NullString]
                     ELSE NoModel]
  /\ presetTable = [a \in ModelAliases |-> <<>>]
  /\ apiCall = NoApiCall
  /\ patch = NoPatch
  /\ minerTable = [d \in MinerIDs |->
                     IF d = "m2" THEN [InsertedMiner(FALSE) EXCEPT !.ip = Str(<<"i">>),
                                                                  !.model = "X"]
                     ELSE NoMiner]
  /\ minerCall = NoMinerCall
  /\ PollInit
  /\ AppInit
  /\ ConnInit

MinerNext ==
  \/ \E params \in UpsertMinerParams : \E failAt \in MinerFailPoints :
       \E managed \in SchemaDefaults : UpsertMiner(params, failAt, managed)

MinerSpec == MinerInit /\ [][MinerNext]_vars

(* ---------------------------------------------------------------------- *)
(* The samplers: StatusPoller.poll and TelemetryPoller.poll select their  *)
(* targets from ListMiners.  The Store never holds a blank ip or api_key  *)
(* (UpsertMiner stores NULL for them), so the TrimSpace tests of the      *)
(* filters are the tests for NULL.                                        *)
(* ---------------------------------------------------------------------- *)
\* the targets of StatusPoller.poll
statusTargets(ms) ==
  {d \in DOMAIN ms : ms[d].managed /\ ms[d].ip # Nil /\ ms[d].apiKey # Nil}

\* the targets of TelemetryPoller.poll; maxPreset is models.max_preset by alias
telemetryTargets(ms, maxPreset) ==
  {d \in DOMAIN ms :
     /\ ms[d].managed
     /\ ms[d].model # Nil
     /\ maxPreset[ms[d].model] # Nil
     /\ ms[d].ip # Nil
     /\ ms[d].apiKey # Nil}

\* one poll of the status sampler: the miners of answered return a summary,
\* and their status is recorded
StatusPoll(listOk, answered, report) ==
  LET targets == IF listOk THEN statusTargets(miners) ELSE {}
  IN  /\ pc = "idle"
      /\ answered \subseteq targets
      /\ \A d \in answered : report[d] \in StatusReports(d)
      /\ \A d \in MinerIDs \ answered : report[d] = [perfOk |-> TRUE, power |-> NoW, hash |-> 2]
      /\ miners' = [d \in MinerIDs |->
                      IF d \in answered
                      THEN [miners[d] EXCEPT !.status =
                              [valid |-> TRUE,
                               preset |-> IF report[d].perfOk THEN devicePreset[d] ELSE Nil,
                               power |-> report[d].power,
                               hash |-> report[d].hash]]
                      ELSE miners[d]]
      /\ polled' = [poller |-> "status", listed |-> listOk, targets |-> targets]
      /\ UNCHANGED <<telemetry, fan, apiVars, appVars, connVars, plantVars, discVars, recVars, plantReading,
                     safetyMarginSetting, lastPresetChange, expectedSetting, modelMaxPreset,
                     lastSuccess, devicePreset, testMode, pc, tickVars>>

\* one poll of the telemetry sampler: the chains of the miners of answered
\* are recorded
TelemetryPoll(listOk, answered) ==
  LET targets == IF listOk THEN telemetryTargets(miners, modelMaxPreset) ELSE {}
  IN  /\ pc = "idle"
      /\ answered \subseteq targets
      /\ telemetry' = telemetry \cup answered
      /\ polled' = [poller |-> "telemetry", listed |-> listOk, targets |-> targets]
      /\ UNCHANGED <<fan, apiVars, appVars, connVars, plantVars, discVars, recVars, storeVars, devicePreset,
                     testMode, pc, tickVars>>

\* a discovered fleet: every miner has its model, and an ip and an api_key
\* unless it is offline or was never provisioned
SampledMiners(d) ==
  {[managed |-> m, ip |-> "ip", apiKey |-> k, model |-> ModelOf(d), status |-> NoStatus] :
     m \in BOOLEAN, k \in {Nil, "key"}}

SamplerInit ==
  /\ plantReading = Absent
  /\ safetyMarginSetting = DefaultSafetyMargin
  /\ lastPresetChange = NoCooldowns
  /\ expectedSetting = Absent
  /\ miners \in [MinerIDs -> UNION {SampledMiners(d) : d \in MinerIDs}]
  /\ \A d \in MinerIDs : miners[d] \in SampledMiners(d)
  /\ CatalogInit
  /\ lastSuccess = NoCooldowns
  /\ devicePreset = [d \in MinerIDs |-> "disabled"]
  /\ testMode = TRUE
  /\ TickInit
  /\ ExtInit

SamplerNext ==
  \/ \E listOk \in BOOLEAN : \E answered \in SUBSET MinerIDs :
       \E report \in [MinerIDs -> UNION {StatusReports(d) : d \in MinerIDs}] :
         StatusPoll(listOk, answered, report)
  \/ \E listOk \in BOOLEAN : \E answered \in SUBSET MinerIDs : TelemetryPoll(listOk, answered)
  \/ \E d \in Operated : \E managed \in BOOLEAN : updateMiner(d, managed)
  \/ \E d \in Swept : markOffline(d)
  \/ \E d \in Swept : \E keyOk \in BOOLEAN : applyDiscovery(d, keyOk)

SamplerSpec == SamplerInit /\ [][SamplerNext]_vars

(* ---------------------------------------------------------------------- *)
(* main and App.Run: the supervisor, the Run loops of the five periodic   *)
(* services, the goroutine of ListenAndServe and the HTTP handlers.       *)
(* ---------------------------------------------------------------------- *)
shutdownTimeout == 5

\* what the supervisor and the services leave alone
AppFrame ==
  UNCHANGED <<apiVars, pollVars, connVars, plantVars, discVars, recVars, storeVars, devicePreset,
              testMode, pc, tickVars>>

\* signal.NotifyContext cancels the context App.Run derives its own from
Signal ==
  /\ appPc \notin {"closed", "exited"}
  /\ ~signalled
  /\ signalled' = TRUE
  /\ ctxDone' = TRUE
  /\ UNCHANGED <<appPc, services, listener, serveLoop, handlers, errCh, runErr,
                 shutdownClock, storeOpen>>
  /\ AppFrame

\* the select of a service's Run loop takes the ticker; with a cancelled
\* context and a ticker that has fired the select may take either
ServiceTick(n) ==
  /\ services[n] = "waiting"
  /\ appPc \notin {"closed", "exited"}
  /\ services' = [services EXCEPT ![n] = "polling"]
  /\ UNCHANGED <<appPc, ctxDone, signalled, listener, serveLoop, handlers, errCh, runErr,
                 shutdownClock, storeOpen>>
  /\ AppFrame

\* the poll or tick returns
ServiceTickDone(n) ==
  /\ services[n] = "polling"
  /\ appPc \notin {"closed", "exited"}
  /\ services' = [services EXCEPT ![n] = "waiting"]
  /\ UNCHANGED <<appPc, ctxDone, signalled, listener, serveLoop, handlers, errCh, runErr,
                 shutdownClock, storeOpen>>
  /\ AppFrame

\* the select takes ctx.Done(): Run returns and wg.Done runs
ServiceStop(n) ==
  /\ services[n] = "waiting"
  /\ ctxDone
  /\ appPc \notin {"closed", "exited"}
  /\ services' = [services EXCEPT ![n] = "stopped"]
  /\ UNCHANGED <<appPc, ctxDone, signalled, listener, serveLoop, handlers, errCh, runErr,
                 shutdownClock, storeOpen>>
  /\ AppFrame

\* a request arrives and its handler starts
HandlerStart ==
  /\ listener = "listening"
  /\ serveLoop = "serving"
  /\ ~handlers
  /\ handlers' = TRUE
  /\ UNCHANGED <<appPc, ctxDone, signalled, services, listener, serveLoop, errCh, runErr,
                 shutdownClock, storeOpen>>
  /\ AppFrame

HandlerDone ==
  /\ handlers
  /\ appPc \notin {"closed", "exited"}
  /\ handlers' = FALSE
  /\ UNCHANGED <<appPc, ctxDone, signalled, services, listener, serveLoop, errCh, runErr,
                 shutdownClock, storeOpen>>
  /\ AppFrame

\* ListenAndServe returns an error other than ErrServerClosed
ListenFails ==
  /\ listener = "listening"
  /\ serveLoop = "serving"
  /\ appPc = "select"
  /\ listener' = "failed"
  /\ serveLoop' = "returned"
  /\ errCh' = TRUE
  /\ UNCHANGED <<appPc, ctxDone, signalled, services, handlers, runErr, shutdownClock,
                 storeOpen>>
  /\ AppFrame

\* ListenAndServe returns ErrServerClosed once Shutdown has closed the listener
ListenReturns ==
  /\ listener = "closed"
  /\ serveLoop = "serving"
  /\ serveLoop' = "returned"
  /\ UNCHANGED <<appPc, ctxDone, signalled, services, listener, handlers, errCh, runErr,
                 shutdownClock, storeOpen>>
  /\ AppFrame

\* the select of App.Run; fromErr: it takes errCh, and then cancels
RunSelect(fromErr) ==
  /\ appPc = "select"
  /\ IF fromErr THEN errCh ELSE ctxDone
  /\ appPc' = "shutdown"
  /\ runErr' = fromErr
  /\ errCh' = IF fromErr THEN FALSE ELSE errCh
  /\ ctxDone' = TRUE
  /\ UNCHANGED <<signalled, services, listener, serveLoop, handlers, shutdownClock,
                 storeOpen>>
  /\ AppFrame

\* httpServer.Shutdown closes the listener and starts to wait for the handlers
HttpShutdown ==
  /\ appPc = "shutdown"
  /\ appPc' = "draining"
  /\ listener' = IF listener = "listening" THEN "closed" ELSE listener
  /\ shutdownClock' = 0
  /\ UNCHANGED <<ctxDone, signalled, services, serveLoop, handlers, errCh, runErr,
                 storeOpen>>
  /\ AppFrame

\* a second of Shutdown's wait
ShutdownWaits ==
  /\ appPc = "draining"
  /\ handlers
  /\ shutdownClock < shutdownTimeout
  /\ shutdownClock' = shutdownClock + 1
  /\ UNCHANGED <<appPc, ctxDone, signalled, services, listener, serveLoop, handlers, errCh,
                 runErr, storeOpen>>
  /\ AppFrame

\* Shutdown returns: no handler is left or shutdownCtx has expired; then cancel()
ShutdownReturns ==
  /\ appPc = "draining"
  /\ ~handlers \/ shutdownClock = shutdownTimeout
  /\ appPc' = "wait"
  /\ ctxDone' = TRUE
  /\ UNCHANGED <<signalled, services, listener, serveLoop, handlers, errCh, runErr,
                 shutdownClock, storeOpen>>
  /\ AppFrame

\* wg.Wait returns and App.Run returns
RunWait ==
  /\ appPc = "wait"
  /\ \A n \in ServiceNames : services[n] = "stopped"
  /\ serveLoop = "returned"
  /\ appPc' = "returned"
  /\ UNCHANGED <<ctxDone, signalled, services, listener, serveLoop, handlers, errCh, runErr,
                 shutdownClock, storeOpen>>
  /\ AppFrame

\* main: os.Exit(1) on an error of Run, else the deferred db.Close()
MainReturns ==
  /\ appPc = "returned"
  /\ appPc' = IF runErr THEN "exited" ELSE "closed"
  /\ storeOpen' = runErr
  /\ UNCHANGED <<ctxDone, signalled, services, listener, serveLoop, handlers, errCh, runErr,
                 shutdownClock>>
  /\ AppFrame

AppSpecInit ==
  /\ plantReading = Absent
  /\ safetyMarginSetting = DefaultSafetyMargin
  /\ lastPresetChange = NoCooldowns
  /\ expectedSetting = Absent
  /\ miners = [d \in MinerIDs |-> InitialMiner(d)]
  /\ modelMaxPreset = [a \in ModelAliases |-> Nil]
  /\ lastSuccess = NoCooldowns
  /\ devicePreset = [d \in MinerIDs |-> "disabled"]
  /\ testMode = TRUE
  /\ TickInit
  /\ ExtInit

AppNext ==
  \/ Signal
  \/ \E n \in ServiceNames : ServiceTick(n)
  \/ \E n \in ServiceNames : ServiceTickDone(n)
  \/ \E n \in ServiceNames : ServiceStop(n)
  \/ HandlerStart
  \/ HandlerDone
  \/ ListenFails
  \/ ListenReturns
  \/ \E fromErr \in BOOLEAN : RunSelect(fromErr)
  \/ HttpShutdown
  \/ ShutdownWaits
  \/ ShutdownReturns
  \/ RunWait
  \/ MainReturns

AppSpec == AppSpecInit /\ [][AppNext]_vars

(* ---------------------------------------------------------------------- *)
(* Properties                                                             *)
(* ---------------------------------------------------------------------- *)
\* the set_preset requests of the current tick, in order
SetPresetCalls == SelectSeq(firmwareCalls, LAMBDA c : c.op = "set_preset")

\* the entry of the tick's candidate list for miner d
EntriesOf(d) == {k \in DOMAIN minerEfficiencies : minerEfficiencies[k].miner.ID = d}

\* the rows of power_balance_events the current tick appended for miner d
EventsOf(d) == {k \in DOMAIN events : events[k].MinerID = d}

\* C1: every success event names a preset of the miner's model whose wattage
\* does not exceed the wattage of the model's max_preset, when that is set.
C1_SuccessWithinMaxPreset ==
  \A k \in DOMAIN events :
    LET e == events[k]
        alias == miners[e.MinerID].model
        maxPreset == modelMaxPreset[alias]
        powerMap == TickPresetPowerMap[alias]
    IN  e.Success =>
          /\ e.NewPreset \in SeqToSet(ModelPresetValues(alias))
          /\ (maxPreset # Nil /\ maxPreset \in DOMAIN powerMap)
               => e.NewPower <= powerMap[maxPreset]

\* C2: a success event is appended for a miner only when the miner's
\* previous success event is at least 30 s old.
C2_SuccessesThirtySecondsApart ==
  [][\A d \in MinerIDs :
       lastSuccess'[d] < lastSuccess[d] => lastSuccess[d] >= 30]_vars

C4_NoIncreaseWithoutMaxPreset ==
  \A k \in DOMAIN SetPresetCalls :
    \A j \in EntriesOf(SetPresetCalls[k].miner) :
      LET me == minerEfficiencies[j]
      IN  me.miner.MaxPreset = Nil
            => plannedChanges[me.miner.ID].targetPower <= me.currentPower

C6_ReachesEquilibrium == <>[](firmwareCalls = <<>>)

\* C7: in one tick a miner receives at most one set_preset call, and only
\* for the change the plan phase of that tick recorded for it.
C7_AtMostOncePerTickAndPlanned ==
  /\ \A i, j \in DOMAIN SetPresetCalls :
       SetPresetCalls[i].miner = SetPresetCalls[j].miner => i = j
  /\ \A i \in DOMAIN SetPresetCalls :
       /\ SetPresetCalls[i].miner \in DOMAIN plannedChanges
       /\ SetPresetCalls[i].preset = plannedChanges[SetPresetCalls[i].miner].targetPreset

\* a tick with two candidates has called set_preset on both
C7_Witness ==
  /\ Len(minerEfficiencies) = 2
  /\ Len(SetPresetCalls) = 2

\* C8: the plan phase makes no firmware call and appends no event, and the
\* expected consumption is in expected_consumption_w before the first
\* set_preset call of the tick.
C8_PersistedBeforeFirstSetPreset ==
  /\ pc = "store" => (firmwareCalls = <<>> /\ events = <<>>)
  /\ firmwareCalls # <<>> => (storedThisTick /\ expectedSetting = expectedConsumption)

RECURSIVE PlannedPowerChange(_)
\* the sum of (planned wattage - current wattage) over the planned entries in S
PlannedPowerChange(S) ==
  IF S = {} THEN 0
  ELSE LET k == CHOOSE x \in S : TRUE
           me == minerEfficiencies[k]
       IN  plannedChanges[me.miner.ID].targetPower - me.currentPower
             + PlannedPowerChange(S \ {k})

\* C9: after the plan phase expected_consumption_w holds the baseline plus
\* the planned wattage changes, and the same value over 1,000,000 was POSTed.
C9_StoredExpectedIsBaselinePlusPlanned ==
  pc \in {"apply", "save"} =>
    /\ expectedSetting = baselineW + PlannedPowerChange(PlannedFrom(1))
    /\ posted = [sent |-> TRUE,
                 num |-> baselineW + PlannedPowerChange(PlannedFrom(1)),
                 den |-> 1000000]

\* C10: every set_preset call has exactly one event; a call answered with a
\* 2xx status has a success event and a new cooldown instant, any other call
\* has a failure event with the error message and no new cooldown instant.
C10_OneEventPerAttempt ==
  \A k \in DOMAIN SetPresetCalls :
    LET c == SetPresetCalls[k]
    IN  /\ Cardinality(EventsOf(c.miner)) = 1
        /\ \A j \in EventsOf(c.miner) :
             IF c.status \in 200..299
             THEN /\ events[j].Success
                  /\ cooldownMap[c.miner] = 0
             ELSE /\ ~events[j].Success
                  /\ events[j].ErrorMessage # Nil
                  /\ cooldownMap[c.miner] = presetChangeCooldown

\* C11: once a Store operation of a tick has failed, the tick issues no
\* set_preset call: a tick whose write of expected_consumption_w failed makes
\* no firmware call.
C11_StoreFailureAbortsTick ==
  (pc \in {"apply", "save"} /\ ~storedThisTick) => firmwareCalls = <<>>

\* C12: a tick that finds no plant reading returns at once: it makes no
\* firmware call, appends no event and writes no setting.
C12_NoReadingIsNoOp ==
  [][(pc = "idle" /\ plantReading = Absent /\ pc' # "idle") =>
       /\ pc' = "done"
       /\ firmwareCalls' = <<>>
       /\ events' = <<>>
       /\ ~posted'.sent
       /\ UNCHANGED <<safetyMarginSetting, lastPresetChange, expectedSetting,
                      lastSuccess, miners, devicePreset>>]_vars

\* a tick has returned because there is no plant reading, although a managed
\* miner with a status is there to balance
C12_Witness ==
  /\ pc = "done"
  /\ outcome = "noreading"
  /\ TickEntries # {}

\* C13: a tick that has a plant reading and finds no safety_margin_percent
\* row, and whose Store reads succeed, balances with a margin of 10 percent.
C13_DefaultMarginWhenMissing ==
  (pc # "idle" /\ plantReading # Absent /\ safetyMarginSetting = Absent
     /\ outcome # "aborted")
    => (outcome \in {"tolerance", "planned"} /\ targetPowerW = plantReading * 900)

\* a step of the plant poller
PollStep == plantRows' # plantRows \/ plantPoll' # plantPoll

\* C14: a response whose confidence score is at most 0.8 is never stored as
\* a plant reading: no stored row carries such a score, a poll that gets
\* such a response leaves the rows and the latest reading as they were, and
\* a balancer tick that plans takes its target from the latest stored row.
C14_LowConfidenceNotPersisted ==
  [][/\ \A i \in 1..Len(plantRows') : plantRows'[i].RawConfidence > 8
     /\ (plantPoll' # NoPoll /\ plantPoll'.resp.reading.ConfidenceScore <= 8)
          => /\ plantRows' = plantRows
             /\ plantReading' = plantReading
     /\ (pc = "idle" /\ pc' = "store")
          => targetPowerW' =
               GetLatestPlantReading(plantRows) * (100 - safetyMargin) * 10]_vars

\* a confidence-0.7 answer came after a reading was stored, and the tick
\* that followed planned from the stored reading
C14_Witness ==
  /\ plantPoll.resp.StatusCode = 200
  /\ plantPoll.resp.decodable
  /\ plantPoll.resp.reading.ConfidenceScore = 7
  /\ plantPoll.err = Nil
  /\ plantRows # <<>>
  /\ pc = "store"
  /\ targetPowerW = GetLatestPlantReading(plantRows) * 900

\* C15: every stored plant reading has available power = total generation
\* - total container consumption (all in kW).
C15_AvailableIsGenerationMinusConsumption ==
  \A i \in 1..Len(plantRows) :
    plantRows[i].AvailablePower =
      plantRows[i].TotalGeneration - plantRows[i].TotalContainerConsumption

\* a stored reading of 10 kW generated and 2 kW consumed
C15_Witness ==
  \E i \in 1..Len(plantRows) :
    /\ plantRows[i].TotalGeneration = 10
    /\ plantRows[i].TotalContainerConsumption = 2
    /\ plantRows[i].AvailablePower = 8

\* C16: a poll stores at most one reading and keeps the earlier ones, and
\* a poll that returns an error (transport, status, decoding or Store) has
\* stored no reading.
C16_FailedPollPersistsNone ==
  [][PollStep =>
       /\ Len(plantRows') <= Len(plantRows) + 1
       /\ SubSeq(plantRows', 1, Len(plantRows)) = plantRows
       /\ plantPoll'.err # Nil => plantRows' = plantRows]_vars

\* C17: once a discovery scan has returned, every device that did not
\* answer in it has ip = null, and a device with ip = null is not among
\* the miners the balancer takes as eligible.
C17_UnseenDevicesAreOffline ==
  /\ (scanPc = "idle" /\ scanEnded # "never")
       => \A d \in MinerIDs \ seen : miners[d].ip = Nil
  /\ \A d \in MinerIDs : miners[d].ip = Nil => d \notin filterEligibleMiners(ListMiners)

\* the step in which an applyDiscovery call goes from its read of the model
\* to its return
ApplyStep == current # NoCurrent /\ current' = NoCurrent

\* C18: no step of discovery changes the stored max_preset of a model,
\* whatever the operator's updates it is interleaved with.
C18_DiscoveryKeepsMaxPreset ==
  [][ApplyStep => modelMaxPreset' = modelMaxPreset]_vars

\* the calls the step adds for the device it applies
NewCalls(op) == [op |-> op, miner |-> current.miner] \in discoveryCalls' \ discoveryCalls

\* C19 as stated: a device with a stored api_key gets no unlock, no key
\* listing and no key creation and keeps its stored key; a key is created
\* on a device only when it has no stored key and lists no key whose
\* description is "PowerHive".
C19_KeyCreatedOnlyWithoutPowerHiveKey ==
  [][ApplyStep =>
       LET d == current.miner
       IN  /\ miners[d].apiKey # Nil
                => /\ discoveryCalls' = discoveryCalls
                   /\ deviceKeys' = deviceKeys
                   /\ miners'[d].apiKey = miners[d].apiKey
           /\ NewCalls("create")
                => /\ miners[d].apiKey = Nil
                   /\ ~\E k \in deviceKeys[d] : k.Description = "PowerHive"]_vars

\* C19 amended: a device with a stored api_key gets no unlock, no key
\* listing and no key creation and keeps its stored key; a key is created
\* on a device only when it has no stored key and lists no key that has the
\* description "PowerHive" and a non-empty value.
C19_KeyCreatedOnlyWithoutUsablePowerHiveKey ==
  [][ApplyStep =>
       LET d == current.miner
       IN  /\ miners[d].apiKey # Nil
                => /\ discoveryCalls' = discoveryCalls
                   /\ deviceKeys' = deviceKeys
                   /\ miners'[d].apiKey = miners[d].apiKey
           /\ NewCalls("create")
                => /\ miners[d].apiKey = Nil
                   /\ ~\E k \in deviceKeys[d] :
                         k.Description = "PowerHive" /\ k.Key \notin {"", " "}]_vars

\* in one sweep m1 was applied with its stored key and no call, and m2,
\* which had no key, got one created and stored
C19_Witness ==
  /\ discovered = {"m1", "m2"}
  /\ miners["m1"].apiKey = "key"
  /\ \A c \in discoveryCalls : c.miner # "m1"
  /\ [op |-> "create", miner |-> "m2"] \in discoveryCalls
  /\ miners["m2"].apiKey = GeneratedKey

\* the rows of status s that the tables hold
FansOf(tables, s) == {f \in tables.fans : f[1] = s.id}

ChainsOf(tables, s) == {c \in tables.chains : c[1] = s.id}

ChipsOf(tables, s) == {c \in tables.chips : c[1] = s.id}

\* every status of the tables is there with all its fans, chains and chips,
\* the latest pointer of its miner is on it or on a later status of that
\* miner, and there is no row without its status
Whole(tables) ==
  /\ \A s \in tables.statuses :
       /\ Cardinality(FansOf(tables, s)) = s.input.Fans
       /\ Cardinality(ChainsOf(tables, s)) = s.input.Chains
       /\ Cardinality(ChipsOf(tables, s)) = s.input.Chains * s.input.Chips
       /\ s.miner \in MinerIDs
       /\ tables.latest[s.miner] >= s.id
  /\ \A r \in tables.fans \cup tables.chains \cup tables.chips :
       \E s \in tables.statuses : s.id = r[1]
  /\ \A d \in MinerIDs :
       tables.latest[d] # 0 =>
         \E s \in tables.statuses : s.id = tables.latest[d] /\ s.miner = d

\* C20: record_status is atomic.  At every moment the committed tables hold
\* each status whole or not at all; a step that changes them adds exactly
\* one whole status and puts latest_status_id of its miner on it; a call
\* that returns before its commit leaves them as they were; a call for a
\* miner that has no row leaves no row and returns "not found", unless a
\* Store error or a cancellation has ended it before.
C20_RecordStatusAtomic ==
  [][/\ Whole(db')
     /\ db' # db =>
          \E s \in db'.statuses :
            /\ db'.statuses = db.statuses \cup {s}
            /\ s \notin db.statuses
            /\ db'.latest = [db.latest EXCEPT ![s.miner] = s.id]
            /\ lastCall'.committed /\ lastCall'.id = s.id
     /\ (lastCall' # lastCall /\ ~lastCall'.committed) => db' = db
     /\ (lastCall' # lastCall /\ lastCall'.miner = "ghost")
          => /\ lastCall'.result \in {"not found", "error"}
             /\ ~lastCall'.storeError => lastCall'.result = "not found"
             /\ db' = db]_vars

\* a status with two fans, a chain and two chips is stored, and a later
\* call for the same miner failed after it had inserted its status row and
\* a fan
C20_Witness ==
  /\ \E s \in db.statuses : s.input.Fans = 2 /\ db.latest[s.miner] = s.id
  /\ lastCall.result = "error"
  /\ ~lastCall.committed
  /\ lastCall.pos >= 3
  /\ lastCall.miner \in MinerIDs
  /\ \E s \in db.statuses : s.miner = lastCall.miner

\* ---------------------------------------------------------------------------
\* The connection pool.  main limits the database handle to one open
\* connection; every Store operation takes it from the pool with a statement
\* or BeginTx on s.db, runs its statements on it, and gives it back when the
\* rows are closed or the transaction ends.
\* ---------------------------------------------------------------------------

\* the steps of the Store's operations.  "db" is a statement or BeginTx on
\* s.db, "read" and "write" are statements on the connection held,
\* "loadPresetsTx" is the query of the presets helper, and "release" is
\* Commit, Rollback or the closing of the rows
StoreOps ==
  [SetAppSetting      |-> <<"db", "write", "release">>,
   ListMinerStatuses  |-> <<"db", "read", "release", "db", "read", "release">>,
   ListModels         |-> <<"db", "read", "loadPresetsTx", "release">>,
   UpsertModel        |-> <<"db", "write", "read", "write", "release",
                            "db", "read", "loadPresetsTx", "release">>]

StoreOpNames == DOMAIN StoreOps

\* the transaction a caller's operation hands to its helpers
TxOf(c) == IF conn = c THEN "tx" ELSE Nil

loadPresetsTxOnPool(tx) == "db"

\* loadPresetsTx queries on the transaction it is given, and on s.db only
\* when it is given none
loadPresetsTxHandle(tx) == IF tx # Nil THEN "read" ELSE "db"

\* what the caller's next step asks of the pool or of the connection
StepKind(c) ==
  LET call == storeCalls[c]
      step == StoreOps[call.op][call.at]
  IN  IF step = "loadPresetsTx" THEN loadPresetsTxHandle(TxOf(c)) ELSE step

Running(c) == storeCalls[c].state = "running"

\* the call moves to its next step, and returns after its last
Advance(c) ==
  LET call == storeCalls[c]
  IN  IF call.at = Len(StoreOps[call.op])
      THEN [call EXCEPT !.state = "returned", !.at = 0]
      ELSE [call EXCEPT !.at = @ + 1]

Failed(c, err) == [storeCalls[c] EXCEPT !.state = "returned", !.at = 0, !.err = err]

ConnFrame ==
  UNCHANGED <<apiVars, pollVars, appVars, plantVars, discVars, recVars, storeVars,
              devicePreset, testMode, pc, tickVars>>

\* a service or a handler calls the Store
StoreCall(c, op) ==
  /\ storeCalls[c].state \in {"idle", "returned"}
  /\ storeCalls' = [storeCalls EXCEPT ![c] = [op |-> op, at |-> 1, state |-> "running",
                                               err |-> Nil]]
  /\ UNCHANGED <<conn, writerLock>>
  /\ ConnFrame

\* the pool hands its connection to a caller that asks for it
Acquire(c) ==
  /\ Running(c)
  /\ StepKind(c) = "db"
  /\ conn = Nil
  /\ conn' = c
  /\ storeCalls' = [storeCalls EXCEPT ![c] = Advance(c)]
  /\ UNCHANGED writerLock
  /\ ConnFrame

\* the caller's context ends while it asks for the connection
WaitCancelled(c) ==
  /\ Running(c)
  /\ StepKind(c) = "db"
  /\ conn' = IF conn = c THEN Nil ELSE conn
  /\ writerLock' = IF writerLock = c THEN "free" ELSE writerLock
  /\ storeCalls' = [storeCalls EXCEPT ![c] = Failed(c, "cancelled")]
  /\ ConnFrame

\* a statement on the connection held.  A write needs the writer lock; a
\* failed statement ends the operation, whose deferred Rollback or Close gives
\* the connection back
Statement(c, ok) ==
  /\ Running(c)
  /\ conn = c
  /\ StepKind(c) \in {"read", "write"}
  /\ IF ok
     THEN /\ StepKind(c) = "write" => writerLock \in {"free", c}
          /\ writerLock' = IF StepKind(c) = "write" THEN c ELSE writerLock
          /\ conn' = conn
          /\ storeCalls' = [storeCalls EXCEPT ![c] = Advance(c)]
     ELSE /\ writerLock' = IF writerLock = c THEN "free" ELSE writerLock
          /\ conn' = Nil
          /\ storeCalls' = [storeCalls EXCEPT ![c] = Failed(c, "cancelled")]
  /\ ConnFrame

\* the busy timeout passes while another process holds the writer lock
BusyTimeout(c) ==
  /\ Running(c)
  /\ conn = c
  /\ StepKind(c) = "write"
  /\ writerLock = "external"
  /\ conn' = Nil
  /\ storeCalls' = [storeCalls EXCEPT ![c] = Failed(c, "busy")]
  /\ UNCHANGED writerLock
  /\ ConnFrame

\* Commit, Rollback or rows.Close
Release(c) ==
  /\ Running(c)
  /\ conn = c
  /\ StepKind(c) = "release"
  /\ conn' = Nil
  /\ writerLock' = IF writerLock = c THEN "free" ELSE writerLock
  /\ storeCalls' = [storeCalls EXCEPT ![c] = Advance(c)]
  /\ ConnFrame

\* another process writes to the database file
ExternalWriteBegins ==
  /\ writerLock = "free"
  /\ writerLock' = "external"
  /\ UNCHANGED <<conn, storeCalls>>
  /\ ConnFrame

ExternalWriteEnds ==
  /\ writerLock = "external"
  /\ writerLock' = "free"
  /\ UNCHANGED <<conn, storeCalls>>
  /\ ConnFrame

\* what a goroutine that holds the connection does next
Proceed(c) == (\E ok \in BOOLEAN : Statement(c, ok)) \/ BusyTimeout(c) \/ Release(c)

ConnSpecInit ==
  /\ plantReading = Absent
  /\ safetyMarginSetting = DefaultSafetyMargin
  /\ lastPresetChange = NoCooldowns
  /\ expectedSetting = Absent
  /\ miners = [d \in MinerIDs |-> InitialMiner(d)]
  /\ modelMaxPreset = [a \in ModelAliases |-> Nil]
  /\ lastSuccess = NoCooldowns
  /\ devicePreset = [d \in MinerIDs |-> "disabled"]
  /\ testMode = TRUE
  /\ TickInit
  /\ ExtInit

ConnNext ==
  \/ \E c \in StoreCallers : \E op \in StoreOpNames : StoreCall(c, op)
  \/ \E c \in StoreCallers : Acquire(c)
  \/ \E c \in StoreCallers : WaitCancelled(c)
  \/ \E c \in StoreCallers : \E ok \in BOOLEAN : Statement(c, ok)
  \/ \E c \in StoreCallers : BusyTimeout(c)
  \/ \E c \in StoreCallers : Release(c)
  \/ ExternalWriteBegins
  \/ ExternalWriteEnds

\* a goroutine that holds the connection keeps running, and the pool hands a
\* connection given back to one of the callers waiting for it, each of them
\* in its turn
ConnSpec ==
  /\ ConnSpecInit
  /\ [][ConnNext]_vars
  /\ \A c \in StoreCallers : WF_connVars(Proceed(c))
  /\ \A c \in StoreCallers : SF_connVars(Acquire(c))


\* ---------------------------------------------------------------------------
\* The writers of the Store: the HTTP handlers that write (the PATCH of a
\* miner, of a model and of the safety margin) beside the balancer, the
\* status poller and the plant poller.
\* ---------------------------------------------------------------------------
MinSafetyMargin == 0
MaxSafetyMargin == 50

MarshalDigits(v) ==
  IF v < 10 THEN <<Digits[v + 1]>>
  ELSE <<Digits[(v \div 10) + 1], Digits[(v % 10) + 1]>>

\* json.Marshal of a float64 that is a whole number between -100 and 100
MarshalPercent(v) == IF v < 0 THEN <<"-">> \o MarshalDigits(0 - v) ELSE MarshalDigits(v)

UnmarshalDigits(text) ==
  IF text = <<>> \/ \E k \in DOMAIN text : \A n \in 1..10 : Digits[n] # text[k]
  THEN Unparsable
  ELSE IF Len(text) = 1 THEN DigitVal(text[1])
  ELSE DigitVal(text[1]) * 10 + DigitVal(text[2])

\* json.Unmarshal of the stored text into a float64, as the balancer reads it
UnmarshalPercent(text) ==
  IF text # <<>> /\ Head(text) = "-"
  THEN IF UnmarshalDigits(Tail(text)) = Unparsable THEN Unparsable
       ELSE 0 - UnmarshalDigits(Tail(text))
  ELSE UnmarshalDigits(text)

\* the bodies of PATCH /api/settings/safety-margin: one that does not decode,
\* and the margins below, at and above the limits (a body without the field
\* decodes to 0)
RequestMargins == {-1, 0, 50, 51}

SafetyMarginBodies ==
  {[decodes |-> FALSE, value |-> 0]} \cup {[decodes |-> TRUE, value |-> v] : v \in RequestMargins}

\* the numeric rows of app_settings
AppSettings ==
  [safety_margin_percent |-> safetyMarginSetting, expected_consumption_w |-> expectedSetting]

\* Store.SetAppSetting: the row of the key holds the value, the others stay
SetAppSetting(key, value) == [AppSettings EXCEPT ![key] = value]

SafetyMarginKeyOfBalancer == "expected_consumption_w"

\* the key updateSafetyMargin hands to SetAppSetting
SafetyMarginKey == "safety_margin_percent"

marginOutOfRangeNever(value) == FALSE

\* req.SafetyMarginPercent < 0 || req.SafetyMarginPercent > 50
marginOutOfRange(value) == value < MinSafetyMargin \/ value > MaxSafetyMargin

\* PATCH /api/settings/safety-margin.  setOk: SetAppSetting meets no Store error
updateSafetyMargin(body, setOk) ==
  LET status == IF ~body.decodes THEN "400"
                ELSE IF marginOutOfRange(body.value) THEN "400"
                ELSE IF ~setOk THEN "500"
                ELSE "200"
      after == IF status = "200"
               THEN SetAppSetting(SafetyMarginKey, UnmarshalPercent(MarshalPercent(body.value)))
               ELSE AppSettings
  IN  /\ pc = "idle"
      /\ safetyMarginSetting' = after.safety_margin_percent
      /\ expectedSetting' = after.expected_consumption_w
      /\ apiCall' = [op |-> "updateSafetyMargin", input |-> NoModelInput,
                     result |-> status, committed |-> status = "200"]
      /\ UNCHANGED <<plantReading, lastPresetChange, miners, modelMaxPreset,
                     lastSuccess, devicePreset, testMode, pc, tickVars>>
      /\ UNCHANGED <<modelTable, presetTable, patch, minerTable, minerCall, pollVars, appVars,
                     connVars, plantVars, discVars, recVars>>

\* a fleet that discovery has not found yet, a database whose margin row is
\* missing or holds the default, and the model X with its presets a and b
SettingsInit ==
  /\ plantReading \in Generations
  /\ safetyMarginSetting \in Margins
  /\ lastPresetChange = NoCooldowns
  /\ expectedSetting = Absent
  /\ miners = [d \in MinerIDs |-> InitialMiner(d)]
  /\ modelMaxPreset = [a \in ModelAliases |-> Nil]
  /\ lastSuccess = NoCooldowns
  /\ devicePreset = [d \in MinerIDs |-> "disabled"]
  /\ testMode = TRUE
  /\ TickInit
  /\ PlantInit
  /\ DiscInit
  /\ RecInit
  /\ modelTable = [a \in ModelAliases |->
                     IF a = "X" THEN [exists |-> TRUE, name |-> ModelName,
                                      max_preset |-> NullString]
                     ELSE NoModel]
  /\ presetTable = [a \in ModelAliases |->
                      IF a = "X" THEN <<[value |-> <<"a">>, position |-> 0, power |-> NoW],
                                        [value |-> <<"b">>, position |-> 1, power |-> NoW]>>
                      ELSE <<>>]
  /\ apiCall = NoApiCall
  /\ patch = NoPatch
  /\ minerTable = [d \in MinerIDs |-> NoMiner]
  /\ minerCall = NoMinerCall
  /\ PollInit
  /\ AppInit
  /\ ConnInit

\* the steps of the HTTP server that reach a handler with a Store write
HttpStep ==
  \/ \E d \in Operated, managed \in BOOLEAN : updateMiner(d, managed)
  \/ \E req \in RequestMaxPresets : \E readOk \in BOOLEAN : ServerGetModel("X", req, readOk)
  \/ \E failAt \in FailPoints : ServerUpsertModel(failAt)
  \/ \E body \in SafetyMarginBodies : \E setOk \in BOOLEAN : updateSafetyMargin(body, setOk)

\* the steps of the plant poller
PlantPollerStep == \E g \in Generations : RecordPlantReading(g)

SettingsNext ==
  \/ BalanceNoMargin
  \/ \E loadOk \in BOOLEAN : BalancePlan(loadOk)
  \/ \E storeOk \in BOOLEAN : StoreAndPostExpected(storeOk)
  \/ \E ok \in BOOLEAN : SaveCooldownMap(ok)
  \/ Return
  \/ \E g \in Generations : RecordPlantReading(g)
  \/ \E d \in Operated, managed \in BOOLEAN : updateMiner(d, managed)
  \/ \E req \in RequestMaxPresets : \E readOk \in BOOLEAN : ServerGetModel("X", req, readOk)
  \/ \E failAt \in FailPoints : ServerUpsertModel(failAt)
  \/ \E body \in SafetyMarginBodies : \E setOk \in BOOLEAN : updateSafetyMargin(body, setOk)

SettingsSpec == SettingsInit /\ [][SettingsNext]_vars


(* ---------------------------------------------------------------------- *)
(* The catalog tables                                                     *)
(* ---------------------------------------------------------------------- *)
\* C21: after any sequence of UpsertModel calls every model has at most one
\* preset row per value, and the positions of its rows are 0, 1, ..., n-1
\* without a gap or a repeat.
C21_PresetRowsUniqueAndContiguous ==
  \A a \in ModelAliases :
    LET rows == presetTable[a]
    IN  /\ \A i, j \in DOMAIN rows : rows[i].value = rows[j].value => i = j
        /\ {rows[i].position : i \in DOMAIN rows} = 0..(Len(rows) - 1)
        /\ \A i, j \in DOMAIN rows : rows[i].position = rows[j].position => i = j

\* a call with two presets has replaced the list of a model that had presets
C21_Witness ==
  /\ apiCall.op = "UpsertModel"
  /\ apiCall.result = "ok"
  /\ ~apiCall.input.Presets.null
  /\ Len(presetTable["X"]) = 2
  /\ presetTable["X"][1].value = <<"A">>

\* the stored max_preset of model a matches one of its preset rows
MaxPresetListed(models, presets, a) ==
  models[a].max_preset.null
  \/ \E i \in DOMAIN presets[a] :
       LowerString(presets[a][i].value) = LowerString(models[a].max_preset.value)

\* C22: at every point every model with a max_preset has it among its
\* presets, and an UpsertModel call whose max_preset matches none of the
\* model's presets fails and changes nothing.
C22_MaxPresetAmongPresets ==
  [][/\ \A a \in ModelAliases : MaxPresetListed(modelTable', presetTable', a)
     /\ \A a \in ModelAliases :
          (/\ apiCall' # apiCall
           /\ apiCall'.input.Alias = a
           /\ ~MaxPresetListed(
                 [modelTable EXCEPT ![a].max_preset =
                    nullableTrimmedString(apiCall'.input.MaxPreset)],
                 IF apiCall'.input.Presets.null THEN presetTable
                 ELSE [presetTable EXCEPT ![a] =
                         [i \in DOMAIN apiCall'.input.Presets.items |->
                            [value |-> TrimSpace(apiCall'.input.Presets.items[i]),
                             position |-> i - 1, power |-> NoW]]],
                 a))
          => /\ apiCall'.result \notin {"ok", "200"}
             /\ modelTable' = modelTable
             /\ presetTable' = presetTable]_vars

(* ---------------------------------------------------------------------- *)
(* The miners table                                                       *)
(* ---------------------------------------------------------------------- *)
MinerColumns == {"ip", "api_key", "managed", "unlock_pass", "model", "updated_at"}

\* the columns a call supplies
SuppliedColumns(params) ==
  {c \in MinerColumns :
     \/ c = "ip" /\ ~params.IP.null
     \/ c = "api_key" /\ ~params.APIKey.null
     \/ c = "managed" /\ ~params.Managed.null
     \/ c = "unlock_pass" /\ ~params.UnlockPass.null
     \/ c = "model" /\ ~params.ModelAlias.null}

\* in this step a row that existed changes in the columns cols only where
\* the call names the row and supplies the column, and a row appears only
\* for the id of a call that committed
OnlySuppliedChange(cols) ==
  \A d \in MinerIDs :
    /\ minerTable[d].exists =>
         /\ minerTable'[d].exists
         /\ \A c \in cols :
              minerTable'[d][c] # minerTable[d][c]
              => /\ MinerOfChars(TrimSpace(minerCall'.params.ID)) = d
                 /\ c \in SuppliedColumns(minerCall'.params)
                 /\ minerCall'.committed
    /\ (~minerTable[d].exists /\ minerTable'[d].exists)
         => /\ MinerOfChars(TrimSpace(minerCall'.params.ID)) = d
            /\ minerCall'.committed

\* a call that sets unlock_pass to empty fails and leaves the table as it was
EmptyUnlockPassFails ==
  (/\ minerCall' # minerCall
   /\ ~minerCall'.params.UnlockPass.null
   /\ TrimSpace(minerCall'.params.UnlockPass.value) = <<>>)
  => /\ minerCall'.result \notin {"ok", Nil}
     /\ ~minerCall'.committed
     /\ minerTable' = minerTable

\* C23 as stated: UpsertMiner changes only the supplied fields and leaves
\* every other column of the device unchanged; a call that sets unlock_pass
\* to empty fails without a visible effect: it inserts no row and applies
\* none of the other fields of the call.
C23_OnlySuppliedFieldsChange ==
  [][OnlySuppliedChange(MinerColumns) /\ EmptyUnlockPassFails]_vars

\* C23 amended: as C23, except that updated_at is written too: a call that
\* supplies at least one field and commits sets updated_at of its row to
\* the current time, and no other call and no other row's updated_at changes.
C23_OnlySuppliedFieldsAndUpdatedAtChange ==
  [][/\ OnlySuppliedChange(MinerColumns \ {"updated_at"})
     /\ \A d \in MinerIDs :
          (minerTable[d].exists /\ minerTable'[d].updated_at # minerTable[d].updated_at)
          => /\ MinerOfChars(TrimSpace(minerCall'.params.ID)) = d
             /\ HasSets(minerCall'.params)
             /\ minerCall'.committed
             /\ minerTable'[d].updated_at = "set"
     /\ EmptyUnlockPassFails]_vars

\* a call that supplied managed only has committed on a row whose ip an
\* earlier call had set, and the ip is still there
C23_Witness ==
  /\ minerCall.result = "ok"
  /\ minerCall.params.IP.null
  /\ ~minerCall.params.Managed.null
  /\ minerTable["m1"].exists
  /\ minerTable["m1"].managed
  /\ minerTable["m1"].ip = Str(<<"i">>)
  /\ minerTable["m1"].updated_at = "set"

(* ---------------------------------------------------------------------- *)
(* The samplers                                                           *)
(* ---------------------------------------------------------------------- *)
\* managed, with an ip, an api_key and a model
SamplerEligible(ms) ==
  {d \in DOMAIN ms : ms[d].managed /\ ms[d].ip # Nil /\ ms[d].apiKey # Nil /\ ms[d].model # Nil}

\* C24: on every Store state the status sampler and the telemetry sampler
\* select the same miners, those that are managed and have an ip, an
\* api_key and a model: whichever sampler lists the miners, its targets are
\* that set and are the targets the other sampler takes from the same list
\* (a poll whose ListMiners fails selects nothing).
C24_SamplersSelectSameMiners ==
  [][(polled' # polled /\ polled'.listed)
     => /\ polled'.targets = SamplerEligible(miners)
        /\ statusTargets(miners) = telemetryTargets(miners, modelMaxPreset)]_vars

(* ---------------------------------------------------------------------- *)
(* Shutdown                                                               *)
(* ---------------------------------------------------------------------- *)
AllServicesReturned == \A n \in ServiceNames : services[n] = "stopped"

\* C25: after SIGINT or SIGTERM the supervisor cancels the shared context,
\* waits until every periodic service has returned, only then shuts the
\* HTTP listener down, waiting at most 5 s, and the Store is closed after
\* everything else has stopped.
C25_ShutdownOrder ==
  [][/\ (signalled /\ appPc = "shutdown" /\ appPc' = "draining")
          => (ctxDone /\ AllServicesReturned)
     /\ shutdownClock' <= shutdownTimeout
     /\ (storeOpen /\ ~storeOpen')
          => (AllServicesReturned /\ serveLoop = "returned" /\ listener # "listening")]_vars

StoreButMargin ==
  <<plantReading, lastPresetChange, expectedSetting, miners, modelMaxPreset, modelTable,
    presetTable, minerTable, plantRows, db>>

\* C27 (as stated): only the balancer writes last_preset_change and
\* expected_consumption_w, and an HTTP handler writes nothing in the Store
\* but safety_margin_percent.
C27_ServerWritesOnlySafetyMargin ==
  [][/\ (HttpStep \/ PlantPollerStep) => UNCHANGED <<lastPresetChange, expectedSetting>>
     /\ HttpStep => UNCHANGED StoreButMargin]_vars

\* C27 (amended): only the balancer writes last_preset_change and
\* expected_consumption_w; the only setting an HTTP handler writes is
\* safety_margin_percent, and its other Store writes are a miner's managed
\* flag (with the unlock password, through UpsertMiner) and a model's
\* max_preset (through UpsertModel).
C27_ServerWritesMarginMinerAndModel ==
  [][/\ (HttpStep \/ PlantPollerStep) => UNCHANGED <<lastPresetChange, expectedSetting>>
     /\ HttpStep =>
          /\ UNCHANGED <<plantReading, lastPresetChange, expectedSetting, modelMaxPreset,
                         presetTable, minerTable, plantRows, db>>
          /\ \A d \in MinerIDs : [miners'[d] EXCEPT !.managed = miners[d].managed] = miners[d]
          /\ \A a \in ModelAliases :
               [modelTable'[a] EXCEPT !.max_preset = modelTable[a].max_preset]
                 = modelTable[a]]_vars

\* the handlers have set the flag of m1, the max_preset of X and the margin,
\* and the balancer has stored its expected consumption
C27_Witness ==
  /\ miners["m1"].managed
  /\ ~modelTable["X"].max_preset.null
  /\ safetyMarginSetting = MaxSafetyMargin
  /\ apiCall.op = "updateSafetyMargin"
  /\ pc = "save"
  /\ storedThisTick

\* C28: a PATCH of the safety margin with a value outside [0, 50] is
\* answered 400 and writes nothing, the stored margin, once set, lies in
\* [0, 50], and the target of a tick is computed from a margin in [0, 50].
C28_MarginWithinRange ==
  [][/\ \A body \in SafetyMarginBodies : \A setOk \in BOOLEAN :
          (/\ updateSafetyMargin(body, setOk)
           /\ (body.value < MinSafetyMargin \/ body.value > MaxSafetyMargin))
            => (apiCall'.result = "400" /\ UNCHANGED safetyMarginSetting)
     /\ safetyMarginSetting' # safetyMarginSetting
          => safetyMarginSetting' \in MinSafetyMargin..MaxSafetyMargin
     /\ (pc = "idle" /\ pc' = "store")
          => \E m \in MinSafetyMargin..MaxSafetyMargin :
               targetPowerW' = plantReading * (100 - m) * 10]_vars

\* a margin of 51 was refused after 50 had been stored, and the balancer has
\* computed its target from the 50
C28_Witness ==
  /\ apiCall = [op |-> "updateSafetyMargin", input |-> NoModelInput, result |-> "400",
                committed |-> FALSE]
  /\ safetyMarginSetting = MaxSafetyMargin
  /\ pc = "store"
  /\ targetPowerW = plantReading * (100 - MaxSafetyMargin) * 10

\* the latest status of d names no preset, or a preset without a wattage
\* in the tick's power map
UnresolvedPreset(d) ==
  ~(/\ miners[d].status.preset # Nil
    /\ miners[d].model \in DOMAIN TickPresetPowerMap
    /\ miners[d].status.preset \in DOMAIN TickPresetPowerMap[miners[d].model])

PositionOf(alias, value) ==
  CHOOSE k \in DOMAIN ModelPresetValues(alias) : ModelPresetValues(alias)[k] = value

\* a preset of d's model below its current one has a wattage in the power
\* map (any preset with a wattage, when the status names no preset)
LowerPresetKnown(d) ==
  /\ miners[d].model \in DOMAIN TickPresetPowerMap
  /\ \E v \in DOMAIN TickPresetPowerMap[miners[d].model] :
       miners[d].status.preset # Nil
         => PositionOf(miners[d].model, v)
              < PositionOf(miners[d].model, miners[d].status.preset)

\* C29: a candidate whose current preset has no resolved wattage gets no
\* planned change in a tick that increases, and gets one in a tick that
\* reduces only if a lower preset of its model has a known wattage.
C29_UnresolvedCandidateNotIncreased ==
  [][(pc = "idle" /\ pc' = "store")
       => \A d \in DOMAIN plannedChanges' :
            UnresolvedPreset(d) => (targetPowerW' < baselineW' /\ LowerPresetKnown(d))]_vars

\* the wattages of the presets the increase rule allows d: above its current
\* wattage and not above the wattage of max_preset
AllowedIncreases(d) ==
  LET powerMap == TickPresetPowerMap[miners[d].model]
      maxPreset == modelMaxPreset[miners[d].model]
  IN  {powerMap[v] : v \in {w \in DOMAIN powerMap :
                              /\ powerMap[w] > powerMap[miners[d].status.preset]
                              /\ powerMap[w] <= powerMap[maxPreset]}}

\* C30: a planned move of a candidate to a higher wattage, its current
\* wattage c and its max_preset both known, goes to the lowest preset whose
\* wattage is above c and not above that of max_preset; without such a
\* preset the candidate is not moved up.
C30_IncreaseToLowestAllowedPreset ==
  [][(pc = "idle" /\ pc' = "store")
       => \A d \in DOMAIN plannedChanges' :
            (/\ ~UnresolvedPreset(d)
             /\ modelMaxPreset[miners[d].model] \in DOMAIN TickPresetPowerMap[miners[d].model]
             /\ plannedChanges'[d].targetPower
                  > TickPresetPowerMap[miners[d].model][miners[d].status.preset])
              => /\ AllowedIncreases(d) # {}
                 /\ plannedChanges'[d].targetPower = Min(AllowedIncreases(d))]_vars

\* the wattages of the presets of d's model below its current wattage
LowerWattages(d) ==
  LET powerMap == TickPresetPowerMap[miners[d].model]
  IN  {powerMap[v] : v \in {w \in DOMAIN powerMap :
                              powerMap[w] < powerMap[miners[d].status.preset]}}

\* C31: a planned move of a candidate with known current wattage c to a
\* lower wattage goes to the highest preset whose wattage is below c;
\* without such a preset the candidate is not moved down.
C31_ReduceToHighestLowerPreset ==
  [][(pc = "idle" /\ pc' = "store")
       => \A d \in DOMAIN plannedChanges' :
            (/\ ~UnresolvedPreset(d)
             /\ plannedChanges'[d].targetPower
                  < TickPresetPowerMap[miners[d].model][miners[d].status.preset])
              => /\ LowerWattages(d) # {}
                 /\ plannedChanges'[d].targetPower = Max(LowerWattages(d))]_vars

\* a reduce tick has planned m1 from high to mid, with low below it, and has
\* left m2 on the lowest preset of its model
C31_Witness ==
  /\ pc = "store"
  /\ targetPowerW < baselineW
  /\ miners["m1"].status.preset = "high"
  /\ miners["m2"].status.preset = "1100"
  /\ "m2" \in filterEligibleMiners(ListMiners)
  /\ DOMAIN plannedChanges = {"m1"}
  /\ plannedChanges["m1"].targetPreset = "mid"

\* C32: in a tick that increases, every candidate that reports zero
\* hashrate stands before every candidate that reports a hashrate in the
\* order the plan and the apply loops walk.
C32_ZeroHashrateFirstOnIncrease ==
  [][(pc = "idle" /\ pc' = "store" /\ targetPowerW' > baselineW')
       => \A i, j \in DOMAIN minerEfficiencies' :
            (i < j) => ~(/\ minerEfficiencies'[i].miner.LatestStatus.hash > 0
                         /\ minerEfficiencies'[j].miner.LatestStatus.hash <= 0)]_vars

\* the tick's candidate order: no candidate stands before one that is worse
\* (reduce) or better (increase) in W/TH
InCandidateOrder ==
  \A i, j \in DOMAIN minerEfficiencies :
     i < j => IF targetPowerW < baselineW
              THEN ~EffLess(minerEfficiencies[i].efficiency,
                            minerEfficiencies[j].efficiency)
              ELSE ~EffLess(minerEfficiencies[j].efficiency,
                            minerEfficiencies[i].efficiency)

\* C33: every set_preset call of a tick is issued by one iteration of the
\* apply loop, for the first planned candidate not yet visited in the tick's
\* candidate order (worst W/TH first when reducing, best first when
\* increasing); the iteration ends with the call completed, the position moved
\* past that candidate and delta equal to target minus the running consumption,
\* before the next call can start.
C33_CallsSequentialInCandidateOrder ==
  [][(firmwareCalls' # firmwareCalls /\ firmwareCalls' # <<>>)
       => /\ pc = "apply"
          /\ InCandidateOrder
          /\ minerEfficiencies' = minerEfficiencies
          /\ PlannedFrom(idx) # {}
          /\ LET k == Min(PlannedFrom(idx))
                 n == Len(firmwareCalls)
             IN  /\ Len(firmwareCalls') > n
                 /\ SubSeq(firmwareCalls', 1, n) = firmwareCalls
                 /\ firmwareCalls'[n + 1].op = "set_preset"
                 /\ firmwareCalls'[n + 1].miner = minerEfficiencies[k].miner.ID
                 /\ \A q \in (n + 2)..Len(firmwareCalls') :
                       firmwareCalls'[q].op # "set_preset"
                 /\ idx' = k + 1
          /\ delta' = targetPowerW - currentConsumptionW']_vars

C33_Witness ==
  /\ pc = "apply"
  /\ idx = 2
  /\ Len(minerEfficiencies) = 2
  /\ DOMAIN plannedChanges = {"m1", "m2"}
  /\ Len(firmwareCalls) >= 1
  /\ firmwareCalls[Len(firmwareCalls)].op = "set_preset"
  /\ firmwareCalls[Len(firmwareCalls)].miner = minerEfficiencies[1].miner.ID
  /\ EffLess(minerEfficiencies[1].efficiency, minerEfficiencies[2].efficiency)
  /\ delta = targetPowerW - currentConsumptionW

(* ---------------------------------------------------------------------- *)
(* The fan-out cycle of Discoverer.lightScan, Discoverer.scan (the probe),*)
(* StatusPoller.poll and TelemetryPoller.poll: a producer goroutine feeds *)
(* an unbuffered job channel, the workers publish on a buffered result    *)
(* channel, a closer goroutine closes it after wg.Wait, and the caller    *)
(* ranges over it.  Targets are named by their position in the slice.     *)
(* ---------------------------------------------------------------------- *)
MaxTargets == 2

lightScanWorkers == 32
probeWorkers == 8
maxScanResultsQueue == 128
statusWorkerCount == 4
telemetryWorkerCount == 4

FanKinds == {"light", "probe", "status", "telemetry"}

\* workers := the pool's constant, at most len(targets), at least 1
workerCount(kind, n) ==
  LET pool == CASE kind = "light" -> lightScanWorkers
                [] kind = "probe" -> probeWorkers
                [] kind = "status" -> statusWorkerCount
                [] OTHER -> telemetryWorkerCount
      workers == IF n < pool THEN n ELSE pool
  IN  IF workers < 1 THEN 1 ELSE workers

\* the capacity the result channel is made with
resultCapacity(kind, n) == IF kind = "probe" THEN maxScanResultsQueue ELSE n

\* how the work on one target can end: the client cannot be created, a fetch
\* fails, only the perf-summary fetch fails, or everything is fetched
Outcomes(kind) ==
  CASE kind = "light" -> {"fetch", "ok"}
    [] kind = "probe" -> {"client", "fetch", "ok"}
    [] kind = "status" -> {"client", "fetch", "noperf", "ok"}
    [] OTHER -> {"client", "fetch", "ok"}

\* the samplers publish their failures as results; the discoverer logs them
PublishesErrors(kind) == kind \in {"status", "telemetry"}

\* the discoverer's workers send in a select with ctx.Done
SendHonoursCancel(kind) == kind \in {"light", "probe"}

\* a producer that returns on cancellation without closing the job channel
jobsLeftOpen(closed) == closed

\* close(jobs), on either way out of the producer
closeJobs(closed) == closed + 1

\* a caller that gives the cycle up at the first failed result
mainAbortsOnFailure == "returned"

\* the caller's `continue` after a failed result or a failed persist
mainAfterFailure == "range"

FanFrame ==
  UNCHANGED <<polled, telemetry, apiVars, appVars, connVars, plantVars, discVars,
              recVars, storeVars, devicePreset, testMode, pc, tickVars>>

\* the caller makes the channels and starts the workers, the producer and
\* the closer; ctx may be cancelled already
FanStart(kind, n, cancelled) ==
  /\ fan.kind = Nil
  /\ fan' = [kind |-> kind, n |-> n, ctx |-> cancelled, next |-> 1, prod |-> "run",
             jobsClosed |-> 0,
             w |-> [i \in 1..workerCount(kind, n) |->
                      [st |-> "recv", job |-> 0, res |-> NoResult]],
             results |-> <<>>, resClosed |-> 0, closer |-> "wait", main |-> "range",
             outcome |-> [j \in 1..n |-> Nil], persist |-> [j \in 1..n |-> Nil],
             recorded |-> {}]
  /\ FanFrame

\* the shared context is cancelled while the cycle runs
FanCancel ==
  /\ fan.kind # Nil
  /\ ~fan.ctx
  /\ fan' = [fan EXCEPT !.ctx = TRUE]
  /\ FanFrame

\* the producer's send meets the receive of worker i
ProducerSend(i) ==
  /\ fan.kind # Nil
  /\ fan.prod = "run"
  /\ fan.next <= fan.n
  /\ i \in DOMAIN fan.w
  /\ fan.w[i].st = "recv"
  /\ fan' = [fan EXCEPT !.w[i] = [st |-> "check", job |-> fan.next, res |-> NoResult],
                        !.next = fan.next + 1]
  /\ FanFrame

\* the producer closes the job channel: after the last target, or in the
\* ctx.Done case of its select
ProducerClose ==
  /\ fan.kind # Nil
  /\ fan.prod = "run"
  /\ fan.next > fan.n \/ fan.ctx
  /\ fan' = [fan EXCEPT !.prod = "done",
                        !.jobsClosed = closeJobs(fan.jobsClosed)]
  /\ FanFrame

\* the range over the job channel ends for worker i
WorkerRangeEnds(i) ==
  /\ fan.kind # Nil
  /\ i \in DOMAIN fan.w
  /\ fan.w[i].st = "recv"
  /\ fan.jobsClosed > 0
  /\ fan' = [fan EXCEPT !.w[i].st = "done"]
  /\ FanFrame

\* the test of ctx at the top of the worker's loop body
WorkerChecksCtx(i) ==
  /\ fan.kind # Nil
  /\ i \in DOMAIN fan.w
  /\ fan.w[i].st = "check"
  /\ fan' = [fan EXCEPT !.w[i].st = IF fan.ctx THEN "done" ELSE "work"]
  /\ FanFrame

\* worker i creates the client and fetches from its target
WorkerFetches(i, out) ==
  /\ fan.kind # Nil
  /\ i \in DOMAIN fan.w
  /\ fan.w[i].st = "work"
  /\ out \in Outcomes(fan.kind)
  /\ LET j == fan.w[i].job
         failed == out \in {"client", "fetch"}
         res == [job |-> j, err |-> failed, preset |-> out = "ok"]
     IN  fan' = [fan EXCEPT
                   !.outcome[j] = out,
                   !.w[i] = IF failed /\ ~PublishesErrors(fan.kind)
                            THEN [st |-> "recv", job |-> 0, res |-> NoResult]
                            ELSE [st |-> "send", job |-> j, res |-> res]]
  /\ FanFrame

\* worker i's send on the result channel goes through
WorkerSends(i) ==
  /\ fan.kind # Nil
  /\ i \in DOMAIN fan.w
  /\ fan.w[i].st = "send"
  /\ Len(fan.results) < resultCapacity(fan.kind, fan.n)
  /\ fan' = [fan EXCEPT !.results = Append(fan.results, fan.w[i].res),
                        !.w[i] = [st |-> "recv", job |-> 0, res |-> NoResult]]
  /\ FanFrame

\* the ctx.Done case of the discoverer's send
WorkerSendCancelled(i) ==
  /\ fan.kind # Nil
  /\ i \in DOMAIN fan.w
  /\ fan.w[i].st = "send"
  /\ SendHonoursCancel(fan.kind)
  /\ fan.ctx
  /\ fan' = [fan EXCEPT !.w[i] = [st |-> "done", job |-> 0, res |-> NoResult]]
  /\ FanFrame

\* wg.Wait returns and the closer closes the result channel
CloserCloses ==
  /\ fan.kind # Nil
  /\ fan.closer = "wait"
  /\ \A i \in DOMAIN fan.w : fan.w[i].st = "done"
  /\ fan' = [fan EXCEPT !.closer = "done", !.resClosed = fan.resClosed + 1]
  /\ FanFrame

\* the caller takes one result: lightScan appends it, scan applies it, the
\* samplers skip a failure and persist a sample
CallerReceives(persistOk) ==
  /\ fan.kind # Nil
  /\ fan.main = "range"
  /\ fan.results # <<>>
  /\ LET res == Head(fan.results)
         rest == Tail(fan.results)
     IN  IF res.err
         THEN fan' = [fan EXCEPT !.results = rest, !.main = mainAfterFailure]
         ELSE IF persistOk \/ fan.kind = "light"
         THEN fan' = [fan EXCEPT !.results = rest,
                                 !.persist[res.job] = "ok",
                                 !.recorded = fan.recorded \cup
                                                {[job |-> res.job, preset |-> res.preset]}]
         ELSE fan' = [fan EXCEPT !.results = rest,
                                 !.persist[res.job] = "failed",
                                 !.main = mainAfterFailure]
  /\ FanFrame

\* the range over the closed and drained result channel ends
CallerReturns ==
  /\ fan.kind # Nil
  /\ fan.main = "range"
  /\ fan.results = <<>>
  /\ fan.resClosed > 0
  /\ fan' = [fan EXCEPT !.main = "returned"]
  /\ FanFrame

\* every goroutine of the cycle has ended
FanQuiet ==
  /\ fan.main = "returned"
  /\ fan.prod = "done"
  /\ fan.closer = "done"
  /\ \A i \in DOMAIN fan.w : fan.w[i].st = "done"

\* the cycle's channels and goroutines are gone
FanEnd ==
  /\ fan.kind # Nil
  /\ FanQuiet
  /\ fan' = NoFan
  /\ FanFrame

\* a provisioned, managed fleet and no cycle running
FanInit ==
  /\ SamplerInit
  /\ \A d \in MinerIDs : miners[d].managed /\ miners[d].apiKey # Nil
  /\ safetyMarginSetting = DefaultSafetyMargin
  /\ modelMaxPreset["X"] = "high"

\* the steps of the goroutines of the cycle
FanProgress ==
  \/ \E i \in 1..MaxTargets : ProducerSend(i)
  \/ ProducerClose
  \/ \E i \in 1..MaxTargets : WorkerRangeEnds(i)
  \/ \E i \in 1..MaxTargets : WorkerChecksCtx(i)
  \/ \E i \in 1..MaxTargets : \E out \in {"client", "fetch", "noperf", "ok"} :
       WorkerFetches(i, out)
  \/ \E i \in 1..MaxTargets : WorkerSends(i)
  \/ \E i \in 1..MaxTargets : WorkerSendCancelled(i)
  \/ CloserCloses
  \/ \E persistOk \in BOOLEAN : CallerReceives(persistOk)
  \/ CallerReturns

FanNext ==
  \/ \E kind \in FanKinds : \E n \in 1..MaxTargets : \E cancelled \in BOOLEAN :
       FanStart(kind, n, cancelled)
  \/ FanCancel
  \/ FanProgress
  \/ FanEnd

\* the Go scheduler runs every goroutine that can run, and every request
\* and store call returns (requestLimit, probeTimeout, lightTimeout)
FanSpec == FanInit /\ [][FanNext]_vars /\ WF_vars(FanProgress)

\* C34: when a status or telemetry cycle returns without having been
\* cancelled, every target was sampled whatever happened to the others, the
\* persist of every fetched sample was attempted and every sample whose
\* persist succeeded is recorded; a status whose perf-summary fetch alone
\* failed is recorded with a null preset.
C34_DeviceFailuresAreSkipped ==
  (fan.kind \in {"status", "telemetry"} /\ fan.main = "returned" /\ ~fan.ctx)
    => \A j \in 1..fan.n :
         /\ fan.outcome[j] # Nil
         /\ fan.outcome[j] \in {"noperf", "ok"} => fan.persist[j] # Nil
         /\ (fan.outcome[j] \in {"noperf", "ok"} /\ fan.persist[j] = "ok")
              => [job |-> j, preset |-> fan.outcome[j] = "ok"] \in fan.recorded
         /\ fan.outcome[j] = "noperf" => [job |-> j, preset |-> TRUE] \notin fan.recorded

C34_Witness ==
  /\ fan.kind = "status"
  /\ fan.main = "returned"
  /\ ~fan.ctx
  /\ fan.n = 2
  /\ fan.outcome[1] = "fetch"
  /\ fan.outcome[2] = "noperf"
  /\ fan.recorded = {[job |-> 2, preset |-> FALSE]}

PresetListings ==
  {<<>>,
   <<[Name |-> <<"a">>, power |-> 1500], [Name |-> <<"b">>, power |-> NoW]>>,
   <<[Name |-> <<"b">>, power |-> 2500], [Name |-> <<"a">>, power |-> NoW]>>,
   <<[Name |-> <<" ">>, power |-> NoW]>>}

NamedPreset(preset) == TrimSpace(preset.Name) # <<>>

\* a discoverer that asks every device it applies for its presets
presetsAlwaysFetched(presets, hasKey) == TRUE

\* the test before fetchPresets: the miner's model has no presets and the
\* miner has an api_key
needsPresets(presets, hasKey) == Len(presets) = 0 /\ hasKey

PresetFrame ==
  UNCHANGED <<patch, minerTable, minerCall, pollVars, appVars, connVars, plantVars,
              scanPc, seen, resultCh, discovered, scanEnded, deviceKeys, discoveryCalls,
              recVars, storeVars, devicePreset, testMode, pc, tickVars>>

\* applyDiscovery up to its UpsertModel.  readOk: GetModelByAlias returns
\* the model
applyDiscoveryModel(d, readOk, failAt) ==
  LET a == ModelOf(d)
      input == [Name |-> ModelName, Alias |-> a, Presets |-> NullList,
                MaxPreset |-> IF readOk /\ modelTable[a].exists
                              THEN modelTable[a].max_preset ELSE NullString]
      out == UpsertModelOutcome(input, failAt)
  IN  /\ pc = "idle"
      /\ current = NoCurrent
      /\ FailsAt(input, failAt)
      /\ modelTable' = out.tables.models
      /\ presetTable' = out.tables.presets
      /\ apiCall' = [op |-> "applyDiscovery", input |-> input, result |-> out.result,
                     committed |-> out.committed]
      /\ current' = IF out.result = "ok" THEN [miner |-> d, maxPreset |-> Nil]
                    ELSE NoCurrent
      /\ PresetFrame

\* applyDiscovery from UpsertMiner on.  minerOk: UpsertMiner returns the
\* miner; hasKey: the miner has an api_key after ensureAPIKey; listing: the
\* answer to autotune_presets; failAt: where the UpsertModel of fetchPresets
\* fails; powerOk: UpdatePresetPower succeeds
applyDiscoveryPresets(minerOk, hasKey, listing, failAt, powerOk) ==
  LET a == ModelOf(current.miner)
      named == SelectSeq(listing, NamedPreset)
      values == [i \in DOMAIN named |-> TrimSpace(named[i].Name)]
      input == [Name |-> ModelName, Alias |-> a, Presets |-> List(values),
                MaxPreset |-> modelTable[a].max_preset]
      out == UpsertModelOutcome(input, failAt)
      fetched == minerOk /\ needsPresets(PresetsOf(a), hasKey) /\ values # <<>>
      withPower ==
        [i \in DOMAIN out.tables.presets[a] |->
           LET row == out.tables.presets[a][i]
               src == {k \in DOMAIN listing :
                         listing[k].Name = row.value /\ listing[k].power > 0}
           IN  IF powerOk /\ src # {}
               THEN [row EXCEPT !.power = listing[Max(src)].power]
               ELSE row]
  IN  /\ pc = "idle"
      /\ current # NoCurrent
      /\ IF fetched THEN FailsAt(input, failAt) ELSE failAt = 0
      /\ modelTable' = IF fetched THEN out.tables.models ELSE modelTable
      /\ presetTable' = IF ~fetched THEN presetTable
                        ELSE IF out.result = "ok"
                        THEN [out.tables.presets EXCEPT ![a] = withPower]
                        ELSE out.tables.presets
      /\ apiCall' = IF fetched
                    THEN [op |-> "fetchPresets", input |-> input, result |-> out.result,
                          committed |-> out.committed]
                    ELSE apiCall
      /\ current' = NoCurrent
      /\ PresetFrame

PresetNext ==
  \/ \E d \in MinerIDs : \E readOk \in BOOLEAN : \E failAt \in FailPoints :
       applyDiscoveryModel(d, readOk, failAt)
  \/ \E minerOk, hasKey, powerOk \in BOOLEAN : \E listing \in PresetListings :
       \E failAt \in FailPoints :
         applyDiscoveryPresets(minerOk, hasKey, listing, failAt, powerOk)
  \/ \E req \in RequestMaxPresets : \E readOk \in BOOLEAN : ServerGetModel("X", req, readOk)
  \/ \E failAt \in FailPoints : ServerUpsertModel(failAt)

PresetSpec == ModelInit /\ [][PresetNext]_vars

\* C36: no step of the discoverer (nor of the PATCH of a model) changes the
\* preset rows of a model that has at least one: their number, values and
\* positions stay, and no expected_power_w that is stored is lost.
C36_PresetsOfModelKept ==
  [][\A a \in ModelAliases :
       presetTable[a] # <<>>
         => /\ Len(presetTable'[a]) = Len(presetTable[a])
            /\ \A i \in DOMAIN presetTable[a] :
                 /\ presetTable'[a][i].value = presetTable[a][i].value
                 /\ presetTable'[a][i].position = presetTable[a][i].position
                 /\ presetTable[a][i].power # NoW
                      => presetTable'[a][i].power = presetTable[a][i].power]_vars

C36_Witness ==
  /\ Len(presetTable["X"]) = 2
  /\ presetTable["X"][1].value = <<"a">>
  /\ presetTable["X"][1].power = 1500
  /\ apiCall.op = "applyDiscovery"
  /\ apiCall.input.Alias = "X"
  /\ apiCall.result = "ok"
  /\ current = NoCurrent

\* the steady fleet under a plant that generates 8 kW with a margin of 30 %:
\* the target of 5600 W lies one tolerance below the fleet's 7600 W
CrossingInit ==
  /\ plantReading = 8
  /\ safetyMarginSetting = 30
  /\ lastPresetChange = NoCooldowns
  /\ expectedSetting = Absent
  /\ miners \in [MinerIDs -> UNION {SteadyMiner(d) : d \in MinerIDs}]
  /\ \A d \in MinerIDs : miners[d] \in SteadyMiner(d)
  /\ CatalogInit
  /\ lastSuccess = NoCooldowns
  /\ devicePreset \in [MinerIDs -> {"disabled", "low", "mid", "high", "1100", "3010W"}]
  /\ \A d \in MinerIDs : devicePreset[d] \in PowerPresets(ModelOf(d))
  /\ testMode = TRUE
  /\ TickInit
  /\ ExtInit

CrossingSpec == CrossingInit /\ [][SteadyNext]_vars

\* C37: every change a tick plans for a candidate whose current wattage is
\* known moves in the direction of the tick: not to a higher wattage when the
\* target is below the baseline, not to a lower one when it is above.
C37_PlanKeepsTickDirection ==
  [][(pc = "idle" /\ pc' = "store")
       => \A d \in DOMAIN plannedChanges' :
            ~UnresolvedPreset(d)
              => LET c == TickPresetPowerMap[miners[d].model][miners[d].status.preset]
                     t == plannedChanges'[d].targetPower
                 IN  IF targetPowerW' < baselineW' THEN t <= c ELSE t >= c]_vars

(* ---------------------------------------------------------------------- *)
(* The operator and the discoverer write the miners table while balance() *)
(* runs: the HTTP handlers and the discovery loop are goroutines of their *)
(* own, and the tick holds no lock between its ListMiners and its calls.  *)
(* ---------------------------------------------------------------------- *)
\* PATCH /api/miners/{id} with managed, between the tick's ListMiners and
\* its return
updateMinerInTick(d, managed) ==
  /\ pc \in {"store", "apply"}
  /\ miners[d].managed # managed
  /\ miners' = [miners EXCEPT ![d].managed = managed]
  /\ UNCHANGED <<plantReading, safetyMarginSetting, lastPresetChange, expectedSetting,
                 modelMaxPreset, lastSuccess, devicePreset, testMode, pc, tickVars>>
  /\ UNCHANGED extVars

\* markOffline of a sweep that ends while the tick runs
markOfflineInTick(d) ==
  /\ pc \in {"store", "apply"}
  /\ miners[d].ip # Nil
  /\ miners' = [miners EXCEPT ![d].ip = Nil]
  /\ UNCHANGED <<plantReading, safetyMarginSetting, lastPresetChange, expectedSetting,
                 modelMaxPreset, lastSuccess, devicePreset, testMode, pc, tickVars>>
  /\ UNCHANGED extVars

RaceNext ==
  \/ SteadyNext
  \/ \E d \in Operated : \E managed \in BOOLEAN : updateMinerInTick(d, managed)
  \/ \E d \in Swept : markOfflineInTick(d)

RaceSpec == SteadyInit /\ [][RaceNext]_vars

\* C38: every set_preset call goes to a device whose row, at the moment of
\* the call, is managed and has an ip.
C38_NoCallToUnmanagedOrOffline ==
  [][(Len(firmwareCalls') > Len(firmwareCalls))
       => \A q \in (Len(firmwareCalls) + 1)..Len(firmwareCalls') :
            firmwareCalls'[q].op = "set_preset"
              => /\ miners[firmwareCalls'[q].miner].managed
                 /\ miners[firmwareCalls'[q].miner].ip # Nil]_vars

\* the devices the apply phase has called, and whether every call succeeded
CalledMiners ==
  {firmwareCalls[q].miner : q \in {r \in DOMAIN firmwareCalls :
                                     firmwareCalls[r].op = "set_preset"}}

EveryCallSucceeded ==
  \A q \in DOMAIN firmwareCalls :
     firmwareCalls[q].op = "set_preset"
       => firmwareCalls[q].status # 0 /\ firmwareCalls[q].status < 400

\* C39: when the apply loop of a tick that stored its expected consumption
\* has ended and every set_preset call has succeeded, the devices called are
\* exactly the devices of the plan, and the running consumption has moved
\* from the baseline by the stored expected consumption minus the baseline.
C39_AppliedEqualsPlanned ==
  (pc = "save" /\ storedThisTick /\ EveryCallSucceeded)
    => /\ CalledMiners = DOMAIN plannedChanges
       /\ currentConsumptionW - baselineW = expectedSetting - baselineW

C39_Witness ==
  /\ pc = "save"
  /\ storedThisTick
  /\ EveryCallSucceeded
  /\ CalledMiners = {"m1", "m2"}
  /\ DOMAIN plannedChanges = {"m1", "m2"}
  /\ expectedSetting # baselineW
  /\ currentConsumptionW = expectedSetting

\* the sweeps in which every device that answers info() and model() reports
\* its MAC and its model alias
SweepNext ==
  \/ \E hosts \in BOOLEAN : \E candidates \in SUBSET MinerIDs :
       \E probed \in SUBSET candidates : scan(hosts, candidates, probed)
  \/ \E d \in MinerIDs : \E readOk \in BOOLEAN : applyDiscoveryRead(d, TRUE, readOk)
  \/ \E modelOk, minerOk \in BOOLEAN : \E keyFails \in KeyFailures :
       applyDiscoveryWrite(modelOk, minerOk, keyFails)
  \/ \E listOk \in BOOLEAN : \E failed \in SUBSET MinerIDs : scanMarkOffline(listOk, failed)

SweepSpec == DiscoveryInit /\ [][SweepNext]_vars

\* C40: the markOffline that ends a sweep leaves the ip of every device that
\* answered the probe of that sweep, whatever the Store returned while the
\* answers were applied.
C40_AnsweringDeviceStaysOnline ==
  [][(scanPc = "mark" /\ scanPc' = "idle")
       => \A d \in seen : miners[d].ip # Nil => miners'[d].ip # Nil]_vars

====
